---- MODULE Spec2Model ----
(***************************************************************************)
(* Model of gcommands.py (GeigerLog): the serial command/response engine   *)
(* serialCOMM and the device operations built on it.                       *)
(*                                                                         *)
(* Python values are tagged records [kind, val]: None, a byte string (the  *)
(* value ser.read returns), a list of int (map(ord, rec)), and the decoded *)
(* values of the operations.  Messages are sequences of parts, one part    *)
(* per format string with the numbers formatted into it; "" is <<>> and    *)
(* += appends a part.                                                      *)
(*                                                                         *)
(* One caller runs one operation at a time.  The time.sleep calls of       *)
(* serialCOMM change no state and are left out.  getCFG is modelled with   *)
(* gglobs.cleanPipelineFlag False (no getExtraByte after the exchange).    *)
(* pyserial raises on a write or read of a port that is not open.          *)
(*                                                                         *)
(* Spec runs the operations without arguments through serialCOMM.          *)
(* SpecFun applies the frame builders and the decoders to inputs drawn     *)
(* from bounded sets, SpecCfg runs writeConfigData against a device, and   *)
(* SpecConc runs serialCOMM in two threads on one connection.  Each        *)
(* specification holds the variables of the others at their idle values.   *)
(* SpecLive is Spec with fairness of the steps of a running exchange.      *)
(* SpecExtra runs the read loop of getExtraByte against a device.          *)
(***************************************************************************)
EXTENDS Integers, Sequences, FiniteSets, TLC

VARIABLES
    ser,            \* the handle the caller passes: "None" or "Serial"
    isOpen,         \* the port of the handle is open (pyserial is_open)
    pc,             \* position of the single caller
    op,             \* the device operation in progress
    sendtxt,        \* serialCOMM parameter: the frame
    returnlength,   \* serialCOMM parameter: the reply length asked for
    byteformat,     \* serialCOMM parameter
    rec,            \* serialCOMM local
    error,          \* serialCOMM local
    errmessage,     \* serialCOMM local
    count,          \* serialCOMM local of the retry loop (0 before the loop)
    ret,            \* what serialCOMM handed to its caller
    opret,          \* what the device operation handed to its caller
    writes,         \* ser.write calls of this exchange
    reads,          \* ser.read calls of this exchange
    wire,           \* the frames written in this exchange, in order
    closes,         \* ser.close calls of this exchange
    raisedAt,       \* the ser.write or ser.read of this exchange that raised, or ""
    shortReads,     \* reads of this exchange that returned len < returnlength
    sawPartial,     \* some read of this exchange returned 0 < len < returnlength
    openAtCall,     \* isOpen when the operation was invoked
    asked,          \* the lengths passed to ser.read in this exchange, in order
    pure,           \* a function of the program applied to one input
    cfgw,           \* one call of writeConfigData and the device it writes to
    conc            \* two threads calling serialCOMM on one connection

\* the state of the single caller running one operation through serialCOMM
commVars == << ser, isOpen, pc, op, sendtxt, returnlength, byteformat, rec, error,
               errmessage, count, ret, opret, writes, reads, wire, closes,
               raisedAt, shortReads, sawPartial, openAtCall, asked >>

\* the state the single-caller machine does not use
otherVars == << pure, cfgw, conc >>

vars == << commVars, otherVars >>

(***************************************************************************)
(* Bounds of the model                                                     *)
(***************************************************************************)
\* short replies of length below MaxShortLen, and of length n-1, are tried
MaxShortLen == 2

\* the byte values a reply is filled with
ByteSamples == {0, 9, 255}

(***************************************************************************)
(* Python values                                                           *)
(***************************************************************************)
PyNone     == [kind |-> "None", val |-> <<>>]
PyStr(s)      == [kind |-> "str", val |-> s]
PyList(s)     == [kind |-> "list", val |-> s]
PyInt(n)      == [kind |-> "int", val |-> n]
PyFloat(n, d) == [kind |-> "float", val |-> <<n, d>>]
PyText(f, a)  == [kind |-> "text", val |-> [fmt |-> f, args |-> a]]
PyChars(c)    == [kind |-> "chars", val |-> c]
PyDateTime(y, mo, d, h, mi, s) == [kind |-> "datetime", val |-> <<y, mo, d, h, mi, s>>]

Len0(v) == Len(v.val)                      \* len(rec) of a str or list

Msg(f, a) == << [fmt |-> f, args |-> a] >>

SameValue(a, b) == a.kind = b.kind /\ a.val = b.val

(***************************************************************************)
(* The device operations: frame, reply length and byteformat each passes   *)
(* to serialCOMM                                                           *)
(***************************************************************************)
Operations == { "getVER", "getCPM", "getCPS", "turnHeartbeatOn",
                "turnHeartbeatOFF", "getVOLT", "getCFG", "updateConfig",
                "getSERIAL", "getDATETIME", "getTEMP", "getGYRO",
                "setPOWEROFF", "setPOWERON", "setREBOOT", "setFACTORYRESET" }

Frame(o) ==
    CASE o = "getVER"           -> "<GETVER>>"
      [] o = "getCPM"           -> "<GETCPM>>"
      [] o = "getCPS"           -> "<GETCPS>>"
      [] o = "turnHeartbeatOn"  -> "<HEARTBEAT1>>"
      [] o = "turnHeartbeatOFF" -> "<HEARTBEAT0>>"
      [] o = "getVOLT"          -> "<GETVOLT>>"
      [] o = "getCFG"           -> "<GETCFG>>"
      [] o = "updateConfig"     -> "<CFGUPDATE>>"
      [] o = "getSERIAL"        -> "<GETSERIAL>>"
      [] o = "getDATETIME"      -> "<GETDATETIME>>"
      [] o = "getTEMP"          -> "<GETTEMP>>"
      [] o = "getGYRO"          -> "<GETGYRO>>"
      [] o = "setPOWEROFF"      -> "<POWEROFF>>"
      [] o = "setPOWERON"       -> "<POWERON>>"
      [] o = "setREBOOT"        -> "<REBOOT>>"
      [] o = "setFACTORYRESET"  -> "<FACTORYRESET>>"

\* mutant: the version reply is asked for with 7 bytes like the serial number
ReplyLengthShortVersion(o) ==
    IF o \in {"turnHeartbeatOn", "turnHeartbeatOFF", "setPOWEROFF", "setPOWERON",
              "setREBOOT"} THEN 0
    ELSE IF o \in {"getCPM", "getCPS"} THEN 2
    ELSE IF o = "getTEMP" THEN 4
    ELSE IF o = "getCFG" THEN 256
    ELSE IF o \in {"getVER", "getSERIAL", "getDATETIME", "getGYRO"} THEN 7
    ELSE 1

ReplyLength(o) ==
    CASE o = "getVER"           -> 14
      [] o = "getCPM"           -> 2
      [] o = "getCPS"           -> 2
      [] o = "turnHeartbeatOn"  -> 0
      [] o = "turnHeartbeatOFF" -> 0
      [] o = "getVOLT"          -> 1
      [] o = "getCFG"           -> 256
      [] o = "updateConfig"     -> 1
      [] o = "getSERIAL"        -> 7
      [] o = "getDATETIME"      -> 7
      [] o = "getTEMP"          -> 4
      [] o = "getGYRO"          -> 7
      [] o = "setPOWEROFF"      -> 0
      [] o = "setPOWERON"       -> 0
      [] o = "setREBOOT"        -> 0
      [] o = "setFACTORYRESET"  -> 1

\* only getVER passes byteformat = False among the operations modelled here
ByteFormat(o) == o # "getVER"

\* the operations that return early when ser == None
HeartbeatOps == { "turnHeartbeatOn", "turnHeartbeatOFF" }

\* the operations that decode the reply of serialCOMM
DecodingOps == { "getCPM", "getCPS", "getVOLT", "getSERIAL", "getDATETIME",
                 "getTEMP", "getGYRO" }

(***************************************************************************)
(* Outcomes and messages of serialCOMM                                     *)
(***************************************************************************)
countmax == 5

MsgClosed      == Msg("Serial Port is closed", <<>>)
MsgWriteFailed == Msg("serialCOMM: ERROR: WRITE failed in function serialCOMM. See log for details", <<>>)
MsgReadFailed  == Msg("serialCOMM: ERROR: READ failed in function serialCOMM. See log for details", <<>>)
MsgTooShort(k, n) == Msg("serialCOMM: ERROR: Record too short: Received bytes:{} < requested:{}", <<k, n>>)
MsgOkAfter(c)  == Msg("; ok after {} retry", <<c>>)
MsgGiveUp      == Msg("serialCOMM: ERROR communicating  - giving up - is the baudrate set correctly?", <<>>)
MsgNoSerial    == Msg("No serial connection, returning", <<>>)
MsgDateTime    == Msg("ERROR getting Date & Time from device", <<>>)

NoReturn == [how |-> "none", rec |-> PyNone, error |-> 0, errmessage |-> <<>>, exc |-> ""]
Returned(r, e, m) == [how |-> "returned", rec |-> r, error |-> e, errmessage |-> m, exc |-> ""]
RaisedExc(x) == [how |-> "raised", rec |-> PyNone, error |-> 0, errmessage |-> <<>>, exc |-> x]

(***************************************************************************)
(* The transport (pyserial): what one ser.write and one ser.read can do    *)
(***************************************************************************)
\* a write on a closed port raises; on an open port it returns or raises
WriteOutcomes(open) == IF open THEN {"ok", "raise"} ELSE {"raise"}

\* the lengths ser.read(n) can return within the timeout: never more than n
ReadLengths(n) == { k \in 0..n : k < MaxShortLen \/ k >= n - 1 }

\* the byte strings ser.read(n) can return
Replies(n) == { PyStr([i \in 1..k |-> b]) : k \in ReadLengths(n), b \in ByteSamples }

\* a read on a closed port raises; on an open port it returns or raises
ReadOutcomes(open, n) ==
    IF open THEN { [exc |-> FALSE, rec |-> r] : r \in Replies(n) }
                     \cup { [exc |-> TRUE, rec |-> PyNone] }
            ELSE { [exc |-> TRUE, rec |-> PyNone] }

(***************************************************************************)
(* serialCOMM: the pieces of its code                                      *)
(***************************************************************************)
\* mutant: the except branch leaves the port as it was
CloseSkipped(open) == open

\* ser.close() in the except branches: the port is no longer open
CloseOnError(open) == FALSE

\* mutant: a reply of exactly the length asked for counts as short
ReadIsShortOrEqual(r, n) == Len0(r) <= n

\* len(rec) < returnlength
ReadIsShort(r, n) == Len0(r) < n

\* mutant: the retry loop reads again without writing the frame again
RetryEntrySkipsWrite == "retry_read"

\* the body of the retry loop starts with ser.write(sendtxt)
RetryEntry == "retry_write"

\* mutant: a retry asks only for the bytes the last read fell short of
RetryReadsRemainder(n, r) == n - Len0(r)

\* in the retry loop: ser.read(returnlength), whatever the last read returned
RetryReadLength(n, r) == n

\* len(rec) == returnlength inside the retry loop
RetryIsFull(r, n) == Len0(r) = n

\* mutant: one more attempt before giving up
GiveUpOneLate(c) == c > countmax

\* count >= countmax, tested after count += 1
GiveUp(c) == c >= countmax

\* mutant: a failed write is reported as a warning
WriteFailedReturnsWarning(r) == Returned(r, 1, MsgWriteFailed)

WriteFailedReturn(r) == Returned(r, -1, MsgWriteFailed)

ReadFailedReturn(r) == Returned(r, -1, MsgReadFailed)

\* mutant: giving up hands the last short reply to the caller
GiveUpReturnsLastReply(r) == Returned(r, -1, MsgGiveUp)

\* return (None, error, errmessage) after countmax attempts: the last short
\* reply r is dropped
GiveUpReturn(r) == Returned(PyNone, -1, MsgGiveUp)

\* mutant: giving up closes the port
AfterGiveUpCloses(open) == FALSE

\* the give-up return does not call ser.close(): the port stays as it was
AfterGiveUp(open) == open

\* mutant: the message counts attempts instead of retries
RetryOkMessageCountsAttempts(m, c) == m \o MsgOkAfter(c + 1)

\* errmessage += "; ok after {} retry".format(count)
RetryOkMessage(m, c) == m \o MsgOkAfter(c)

\* if byteformat: rec = map(ord, rec);  return (rec, error, errmessage)
FinalReturn(r, e, m, bf) == Returned(IF bf THEN PyList(r.val) ELSE r, e, m)

(***************************************************************************)
(* The decoders of the device operations                                   *)
(***************************************************************************)
Decodable(e) == e = 0 \/ e = 1

hexlookup == << "0", "1", "2", "3", "4", "5", "6", "7",
                "8", "9", "A", "B", "C", "D", "E", "F" >>

IsLeap(y) == y % 4 = 0 /\ (y % 100 # 0 \/ y % 400 = 0)

DaysInMonth(y, mo) ==
    IF mo = 2 THEN (IF IsLeap(y) THEN 29 ELSE 28)
    ELSE IF mo \in {4, 6, 9, 11} THEN 30 ELSE 31

\* mutant: any day 1..31 is taken in any month
ValidDateTimeAnyMonthLength(y, mo, d, h, mi, s) ==
    /\ y \in 1..9999
    /\ mo \in 1..12
    /\ d \in 1..31
    /\ h \in 0..23
    /\ mi \in 0..59
    /\ s \in 0..59

\* datetime.datetime(y, mo, d, h, mi, s) does not raise
ValidDateTime(y, mo, d, h, mi, s) ==
    /\ y \in 1..9999
    /\ mo \in 1..12
    /\ d \in 1..DaysInMonth(y, mo)
    /\ h \in 0..23
    /\ mi \in 0..59
    /\ s \in 0..59

\* mutant: the two reserved bits are masked in the CPM reply too
DecodeCPMMasked(b) == PyInt((b[1] % 64) * 256 + b[2])

\* rec[0] << 8 | rec[1]
DecodeCPM(b) == PyInt(b[1] * 256 + b[2])

\* mutant: only the top bit of the first byte is masked
DecodeCPSMaskTopBit(b) == PyInt(((b[1] % 128) * 256 + b[2]) * 60)

\* ((rec[0] & 0x3f) << 8 | rec[1]) * 60
DecodeCPS(b) == PyInt(((b[1] % 64) * 256 + b[2]) * 60)

\* mutant: the byte is read as hundredths of a volt
DecodeVOLTHundredths(b) == PyFloat(b[1], 100)

\* rec[0] / 10.0, kept as the fraction rec[0] / 10
DecodeVOLT(b) == PyFloat(b[1], 10)

\* mutant: the low nibble of each byte comes first
DecodeSERIALLowNibbleFirst(b) ==
    PyChars([ j \in 1..14 |->
                IF j % 2 = 1 THEN hexlookup[(b[(j + 1) \div 2] % 16) + 1]
                             ELSE hexlookup[(b[j \div 2] \div 16) + 1] ])

DecodeSERIAL(b) ==
    PyChars([ j \in 1..14 |->
                IF j % 2 = 1 THEN hexlookup[(b[(j + 1) \div 2] \div 16) + 1]
                             ELSE hexlookup[(b[j \div 2] % 16) + 1] ])

DecodeTEMP(b) ==
    LET tenths == b[1] * 10 + b[2]
        temp   == IF b[3] # 0 THEN -tenths ELSE tenths
    IN  IF b[2] > 9
          THEN PyText("{} ERROR: illegal value found for decimal part of temperature ={}",
                      << temp, b[2] >>)
          ELSE PyFloat(temp, 10)

DecodeGYRO(b) ==
    LET x == b[1] * 256 + b[2]
        y == b[3] * 256 + b[4]
        z == b[5] * 256 + b[6]
    IN  PyText("X=0x{:04x}, Y=0x{:04x}, Z=0x{:04x}   ({},{},{})", << x, y, z, x, y, z >>)

getCPMS(r, CPMflag) ==
    IF Decodable(r.error)
      THEN Returned(IF CPMflag THEN DecodeCPM(r.rec.val) ELSE DecodeCPS(r.rec.val),
                    r.error, r.errmessage)
      ELSE r

getVOLT(r) ==
    IF Decodable(r.error) THEN Returned(DecodeVOLT(r.rec.val), r.error, r.errmessage)
                          ELSE r

getSERIAL(r) ==
    IF Decodable(r.error) THEN Returned(DecodeSERIAL(r.rec.val), r.error, r.errmessage)
                          ELSE r

\* the dprint after serialCOMM evaluates len(rec): TypeError when rec is None
getDATETIME(r) ==
    IF r.rec.kind = "None" THEN RaisedExc("TypeError")
    ELSE IF Decodable(r.error)
      THEN LET b == r.rec.val
           IN  IF ValidDateTime(b[1] + 2000, b[2], b[3], b[4], b[5], b[6])
                 THEN Returned(PyDateTime(b[1] + 2000, b[2], b[3], b[4], b[5], b[6]),
                               r.error, r.errmessage)
                 ELSE Returned(PyText("2099-09-09 09:09:09", <<>>), -1, MsgDateTime)
      ELSE r

getTEMP(r) ==
    IF Decodable(r.error) THEN Returned(DecodeTEMP(r.rec.val), r.error, r.errmessage)
                          ELSE r

getGYRO(r) ==
    IF Decodable(r.error) THEN Returned(DecodeGYRO(r.rec.val), r.error, r.errmessage)
                          ELSE r

\* what operation o returns, given what its serialCOMM call did
OpResult(o, r) ==
    IF r.how = "raised" THEN r
    ELSE CASE o = "getCPM"      -> getCPMS(r, TRUE)
           [] o = "getCPS"      -> getCPMS(r, FALSE)
           [] o = "getVOLT"     -> getVOLT(r)
           [] o = "getSERIAL"   -> getSERIAL(r)
           [] o = "getDATETIME" -> getDATETIME(r)
           [] o = "getTEMP"     -> getTEMP(r)
           [] o = "getGYRO"     -> getGYRO(r)
           [] OTHER             -> r

(***************************************************************************)
(* The state machine                                                       *)
(***************************************************************************)
\* the idle values of the variables a specification does not use
PureIdle == [f |-> "none"]

CfgwIdle == [pc |-> "none"]

ConcIdle == [pc |-> "none"]

Init ==
    /\ pure = PureIdle
    /\ cfgw = CfgwIdle
    /\ conc = ConcIdle
    /\ ser \in {"None", "Serial"}
    /\ isOpen = (ser = "Serial")
    /\ pc = "idle"
    /\ op = "none"
    /\ sendtxt = ""
    /\ returnlength = 0
    /\ byteformat = TRUE
    /\ rec = PyNone
    /\ error = 0
    /\ errmessage = <<>>
    /\ count = 0
    /\ ret = NoReturn
    /\ opret = NoReturn
    /\ writes = 0
    /\ reads = 0
    /\ wire = <<>>
    /\ closes = 0
    /\ raisedAt = ""
    /\ shortReads = 0
    /\ sawPartial = FALSE
    /\ openAtCall = (ser = "Serial")
    /\ asked = <<>>

\* A caller invokes device operation o; the operation calls serialCOMM, which
\* runs up to its first ser.write (the turnHeartbeat operations return before
\* the call, and serialCOMM returns at once, when ser == None).
Invoke(o) ==
    /\ pc \in {"idle", "done"}
    /\ UNCHANGED otherVars
    /\ op' = o
    /\ sendtxt' = Frame(o)
    /\ returnlength' = ReplyLength(o)
    /\ byteformat' = ByteFormat(o)
    /\ rec' = PyNone
    /\ error' = 0
    /\ errmessage' = <<>>
    /\ count' = 0
    /\ writes' = 0
    /\ reads' = 0
    /\ wire' = <<>>
    /\ closes' = 0
    /\ raisedAt' = ""
    /\ shortReads' = 0
    /\ sawPartial' = FALSE
    /\ openAtCall' = isOpen
    /\ asked' = <<>>
    /\ IF ser = "None" /\ o \in HeartbeatOps
         THEN /\ ret' = NoReturn
              /\ opret' = Returned(PyStr(<<>>), 1, MsgNoSerial)
              /\ pc' = "done"
         ELSE IF ser = "None"
           THEN /\ ret' = Returned(PyStr(<<>>), -1, MsgClosed)
                /\ opret' = NoReturn
                /\ pc' = "wrapper"
           ELSE /\ ret' = NoReturn
                /\ opret' = NoReturn
                /\ pc' = "write"
    /\ UNCHANGED << ser, isOpen >>

\* try: ser.write(sendtxt)  except: close, return (rec, -1, WRITE failed)
FirstWrite ==
    /\ pc = "write"
    /\ UNCHANGED otherVars
    /\ \E w \in WriteOutcomes(isOpen) :
         /\ writes' = writes + 1
         /\ IF w = "ok"
              THEN /\ wire' = Append(wire, sendtxt)
                   /\ pc' = "read"
                   /\ UNCHANGED << isOpen, error, errmessage, ret, closes, raisedAt >>
              ELSE /\ isOpen' = CloseOnError(isOpen)
                   /\ closes' = closes + 1
                   /\ raisedAt' = "write"
                   /\ error' = -1
                   /\ errmessage' = MsgWriteFailed
                   /\ ret' = WriteFailedReturn(rec)
                   /\ pc' = "wrapper"
                   /\ UNCHANGED wire
    /\ UNCHANGED << ser, op, sendtxt, returnlength, byteformat, rec, count, opret,
                    reads, shortReads, sawPartial, openAtCall, asked >>

\* try: rec = ser.read(returnlength)  except: close, return (rec, -1, READ failed)
\* then the test len(rec) < returnlength, which starts the retry loop
FirstRead ==
    /\ pc = "read"
    /\ UNCHANGED otherVars
    /\ asked' = Append(asked, returnlength)
    /\ \E r \in ReadOutcomes(isOpen, returnlength) :
         /\ reads' = reads + 1
         /\ IF r.exc
              THEN /\ isOpen' = CloseOnError(isOpen)
                   /\ closes' = closes + 1
                   /\ raisedAt' = "read"
                   /\ error' = -1
                   /\ errmessage' = MsgReadFailed
                   /\ ret' = ReadFailedReturn(rec)
                   /\ pc' = "wrapper"
                   /\ UNCHANGED << rec, count, shortReads, sawPartial >>
              ELSE /\ rec' = r.rec
                   /\ shortReads' = shortReads + (IF Len0(r.rec) < returnlength THEN 1 ELSE 0)
                   /\ sawPartial' = (sawPartial \/ (0 < Len0(r.rec) /\ Len0(r.rec) < returnlength))
                   /\ UNCHANGED << isOpen, closes, raisedAt >>
                   /\ IF ReadIsShort(r.rec, returnlength)
                        THEN /\ error' = 1
                             /\ errmessage' = MsgTooShort(Len0(r.rec), returnlength)
                             /\ count' = 1
                             /\ pc' = RetryEntry
                             /\ UNCHANGED ret
                        ELSE /\ ret' = FinalReturn(r.rec, error, errmessage, byteformat)
                             /\ pc' = "wrapper"
                             /\ UNCHANGED << error, errmessage, count >>
    /\ UNCHANGED << ser, op, sendtxt, returnlength, byteformat, opret, writes,
                    wire, openAtCall >>

\* in the retry loop: ser.write(sendtxt), outside any try
RetryWrite ==
    /\ pc = "retry_write"
    /\ UNCHANGED otherVars
    /\ \E w \in WriteOutcomes(isOpen) :
         /\ writes' = writes + 1
         /\ IF w = "ok"
              THEN /\ wire' = Append(wire, sendtxt)
                   /\ pc' = "retry_read"
                   /\ UNCHANGED << ret, raisedAt >>
              ELSE /\ raisedAt' = "retry_write"
                   /\ ret' = RaisedExc("SerialException")
                   /\ pc' = "wrapper"
                   /\ UNCHANGED wire
    /\ UNCHANGED << ser, isOpen, op, sendtxt, returnlength, byteformat, rec, error,
                    errmessage, count, opret, reads, closes, shortReads, sawPartial,
                    openAtCall, asked >>

\* in the retry loop: rec = ser.read(returnlength), outside any try, then the
\* test of the length, count += 1 and the test against countmax
RetryRead ==
    /\ pc = "retry_read"
    /\ UNCHANGED otherVars
    /\ asked' = Append(asked, RetryReadLength(returnlength, rec))
    /\ \E r \in ReadOutcomes(isOpen, RetryReadLength(returnlength, rec)) :
         /\ reads' = reads + 1
         /\ IF r.exc
              THEN /\ raisedAt' = "retry_read"
                   /\ ret' = RaisedExc("SerialException")
                   /\ pc' = "wrapper"
                   /\ UNCHANGED << isOpen, rec, error, errmessage, count, shortReads,
                                   sawPartial >>
              ELSE /\ rec' = r.rec
                   /\ shortReads' = shortReads + (IF Len0(r.rec) < returnlength THEN 1 ELSE 0)
                   /\ sawPartial' = (sawPartial \/ (0 < Len0(r.rec) /\ Len0(r.rec) < returnlength))
                   /\ UNCHANGED raisedAt
                   /\ IF RetryIsFull(r.rec, returnlength)
                        THEN /\ errmessage' = RetryOkMessage(errmessage, count)
                             /\ ret' = FinalReturn(r.rec, error, errmessage', byteformat)
                             /\ pc' = "wrapper"
                             /\ UNCHANGED << isOpen, error, count >>
                        ELSE /\ count' = count + 1
                             /\ IF GiveUp(count')
                                  THEN /\ error' = -1
                                       /\ errmessage' = MsgGiveUp
                                       /\ ret' = GiveUpReturn(r.rec)
                                       /\ isOpen' = AfterGiveUp(isOpen)
                                       /\ pc' = "wrapper"
                                  ELSE /\ pc' = RetryEntry
                                       /\ UNCHANGED << isOpen, error, errmessage, ret >>
    /\ UNCHANGED << ser, op, sendtxt, returnlength, byteformat, opret,
                    writes, wire, closes, openAtCall >>

\* the code of the operation after its serialCOMM call: decode and return
Wrapper ==
    /\ pc = "wrapper"
    /\ UNCHANGED otherVars
    /\ opret' = OpResult(op, ret)
    /\ pc' = "done"
    /\ UNCHANGED << ser, isOpen, op, sendtxt, returnlength, byteformat, rec, error,
                    errmessage, count, ret, writes, reads, wire, closes, raisedAt,
                    shortReads, sawPartial, openAtCall, asked >>

Next ==
    \/ \E o \in Operations : Invoke(o)
    \/ FirstWrite
    \/ FirstRead
    \/ RetryWrite
    \/ RetryRead
    \/ Wrapper

Spec == Init /\ [][Next]_vars

(***************************************************************************)
(* Properties of serialCOMM and of the device operations                   *)
(***************************************************************************)
\* serialCOMM has ended: it returned to the operation or raised
CommEnded == pc \in {"wrapper", "done"} /\ ret.how # "none"

\* every read of the exchange so far returned fewer bytes than asked for
AllReadsShort == ser = "Serial" /\ raisedAt = "" /\ reads >= 1 /\ shortReads = reads

\* C1: when the first read and every retry read are short (returnlength > 0,
\* nothing raises), serialCOMM returns Fatal (-1) with payload None after
\* exactly 5 write/read attempts: it never stops earlier and never goes on.
C1_AllShortFatalAfterFive ==
    AllReadsShort =>
        /\ returnlength > 0
        /\ writes <= 5 /\ reads <= 5
        /\ CommEnded =>
             /\ ret.how = "returned" /\ ret.error = -1 /\ ret.rec.kind = "None"
             /\ writes = 5 /\ reads = 5

C1_Witness ==
    /\ AllReadsShort /\ CommEnded
    /\ reads = 5 /\ writes = 5 /\ ret.error = -1 /\ ret.rec.kind = "None"

\* the first read was short and the last retry, number reads - 1, was the
\* first read of full length
RecoveredByRetry ==
    /\ CommEnded /\ ser = "Serial" /\ raisedAt = ""
    /\ reads >= 2 /\ shortReads = reads - 1 /\ Len0(rec) = returnlength

RecoveredResult(e) ==
    /\ ret.how = "returned" /\ ret.error = e
    /\ ret.rec.kind \in {"str", "list"}
    /\ ret.rec.val = rec.val /\ Len0(ret.rec) = returnlength
    /\ reads - 1 \in 1..4
    /\ Len(ret.errmessage) = 2
    /\ ret.errmessage[1].fmt = "serialCOMM: ERROR: Record too short: Received bytes:{} < requested:{}"
    /\ ret.errmessage[2] = [fmt |-> "; ok after {} retry", args |-> << reads - 1 >>]

\* C2 as stated: a short first read recovered by the k-th retry returns
\* outcome Ok (0) with the full payload and a message recording k retries.
C2_RecoveredIsOk == RecoveredByRetry => RecoveredResult(0)

\* C2 amended: a short first read recovered by the k-th retry (1 <= k <= 4)
\* returns outcome Warning (1) with the full-length payload of that attempt,
\* and the message ends with "; ok after k retry".
C2_RecoveredIsWarning == RecoveredByRetry => RecoveredResult(1)

C2_Witness ==
    RecoveredByRetry /\ reads = 3 /\ shortReads = 2 /\ RecoveredResult(1)

ZeroLengthOp == op \in Operations /\ ReplyLength(op) = 0

\* C3 as stated: an operation with reply length 0 always returns Ok with an
\* empty payload, whatever the transport does, and never enters the retry
\* loop (stated here for calls made with a connection).
C3_ZeroLengthAlwaysOk ==
    (ZeroLengthOp /\ ser = "Serial" /\ pc = "done") =>
        /\ opret.how = "returned" /\ opret.error = 0
        /\ opret.rec.kind \in {"str", "list"} /\ Len0(opret.rec) = 0
        /\ count = 0

\* C3 amended: an operation with reply length 0 never enters the retry loop
\* and makes at most one write and one read; on an open connection whose
\* write and read do not raise it returns Ok (0) with an empty payload and an
\* empty message; when the write or the read raises it returns Fatal (-1)
\* with payload None; with no connection (ser == None) it returns the empty
\* string with outcome Warning (1) for the heartbeat operations and Fatal
\* (-1) for the others.
C3_ZeroLengthOkUnlessIOFails ==
    ZeroLengthOp =>
        /\ count = 0 /\ pc \notin {"retry_write", "retry_read"}
        /\ writes <= 1 /\ reads <= 1 /\ shortReads = 0
        /\ pc = "done" =>
             /\ opret.how = "returned"
             /\ (ser = "Serial" /\ raisedAt = "") =>
                   /\ opret.error = 0 /\ opret.rec.kind = "list"
                   /\ Len0(opret.rec) = 0 /\ opret.errmessage = <<>>
                   /\ writes = 1 /\ reads = 1
             /\ (ser = "Serial" /\ raisedAt # "") =>
                   /\ opret.error = -1 /\ opret.rec.kind = "None"
                   /\ raisedAt \in {"write", "read"} /\ ~isOpen
             /\ ser = "None" =>
                   /\ opret.rec.kind = "str" /\ Len0(opret.rec) = 0
                   /\ opret.error = (IF op \in HeartbeatOps THEN 1 ELSE -1)
                   /\ writes = 0 /\ reads = 0

C3_Witness ==
    /\ ZeroLengthOp /\ pc = "done" /\ ser = "Serial" /\ raisedAt = ""
    /\ reads = 1 /\ opret.error = 0 /\ Len0(opret.rec) = 0

\* C4: when the first write raises, serialCOMM returns Fatal (-1) with
\* payload None, the connection is closed and no read is attempted.
C4_FirstWriteFailure ==
    raisedAt = "write" =>
        /\ CommEnded
        /\ ret.how = "returned" /\ ret.error = -1 /\ ret.rec.kind = "None"
        /\ ~isOpen /\ closes = 1
        /\ reads = 0 /\ writes = 1

C4_Witness ==
    /\ raisedAt = "write" /\ openAtCall /\ pc = "wrapper"
    /\ ret.error = -1 /\ ~isOpen

\* C5: when the first read raises, serialCOMM returns Fatal (-1) with no
\* payload bytes, the connection is closed and the frame is not written again.
C5_FirstReadFailure ==
    raisedAt = "read" =>
        /\ CommEnded
        /\ ret.how = "returned" /\ ret.error = -1 /\ ret.rec.kind = "None"
        /\ ~isOpen /\ closes = 1
        /\ count = 0 /\ writes = 1 /\ reads = 1

C5_Witness ==
    /\ raisedAt = "read" /\ openAtCall /\ pc = "wrapper"
    /\ ret.error = -1 /\ ~isOpen /\ writes = 1

\* C6: an I/O exception of the write or read of any attempt, those of the
\* retry loop included, ends the exchange Fatal with the connection closed,
\* and never escapes serialCOMM.
C6_EveryIOExceptionIsCaught ==
    raisedAt # "" =>
        /\ ret.how = "returned" /\ ret.error = -1
        /\ ~isOpen

\* C7: on a connection that an earlier exchange closed after an I/O
\* exception, every operation returns Fatal at once, reporting that the
\* connection is closed, with no read and no retry.
C7_ClosedConnectionReportsClosed ==
    (ser = "Serial" /\ ~openAtCall /\ CommEnded) =>
        /\ ret.how = "returned" /\ ret.error = -1
        /\ ret.errmessage = MsgClosed
        /\ reads = 0 /\ count = 0

\* C8: serialCOMM never returns partial data: with outcome Ok (0) or Warning
\* (1) the payload has exactly returnlength bytes, with outcome Fatal (-1) it
\* has no device bytes, also after a non-empty short reply was read.
C8_NoPartialData ==
    ret.how = "returned" =>
        /\ ret.error \in {-1, 0, 1}
        /\ ret.error \in {0, 1} =>
             ret.rec.kind \in {"str", "list"} /\ Len0(ret.rec) = returnlength
        /\ ret.error = -1 =>
             ret.rec.kind = "None" \/ (ret.rec.kind = "str" /\ Len0(ret.rec) = 0)

C8_Witness ==
    /\ ret.how = "returned" /\ ret.error = -1 /\ sawPartial
    /\ Len0(rec) > 0 /\ ret.rec.kind = "None"

\* C9: when the exchange of a decoding operation ends Fatal, the operation
\* returns the payload, outcome and message of serialCOMM unchanged.
C9_FatalPassesThroughDecoders ==
    (pc = "done" /\ op \in DecodingOps /\ ret.how = "returned" /\ ret.error = -1) =>
        /\ opret.how = "returned"
        /\ SameValue(opret.rec, ret.rec)
        /\ opret.error = ret.error
        /\ opret.errmessage = ret.errmessage

\* C10: serialCOMM closes the connection only when a write or read raised:
\* when none raises, 5 short reads ending Fatal included, the connection is
\* left as it was.
C10_ClosedOnlyOnIOException ==
    /\ raisedAt = "" => (closes = 0 /\ isOpen = openAtCall)
    /\ (openAtCall /\ ~isOpen) => raisedAt \in {"write", "read"}

C10_Witness ==
    /\ CommEnded /\ raisedAt = "" /\ reads = 5 /\ shortReads = 5
    /\ ret.error = -1 /\ isOpen /\ closes = 0

(***************************************************************************)
(* The idle values of the single-caller machine, for the specifications    *)
(* that do not run it                                                      *)
(***************************************************************************)
CommIdle ==
    /\ ser = "Serial"
    /\ isOpen = TRUE
    /\ pc = "idle"
    /\ op = "none"
    /\ sendtxt = ""
    /\ returnlength = 0
    /\ byteformat = TRUE
    /\ rec = PyNone
    /\ error = 0
    /\ errmessage = <<>>
    /\ count = 0
    /\ ret = NoReturn
    /\ opret = NoReturn
    /\ writes = 0
    /\ reads = 0
    /\ wire = <<>>
    /\ closes = 0
    /\ raisedAt = ""
    /\ shortReads = 0
    /\ sawPartial = FALSE
    /\ openAtCall = TRUE
    /\ asked = <<>>

(***************************************************************************)
(* SpecConc: two threads call serialCOMM on the same connection.           *)
(* serialCOMM takes no lock, and its sleeps and its blocking ser.write and *)
(* ser.read let the other thread run, so the steps of the two calls        *)
(* interleave freely.  Both threads ask for a reply of at least one byte.   *)
(***************************************************************************)
Threads == {1, 2}

OtherThread(t) == 3 - t

\* the locals of serialCOMM in one thread; raised: an exception left the call
ThreadIdle == [pc |-> "idle", count |-> 0, error |-> 0, raised |-> FALSE]

\* thread t is inside its write/read/retry sequence
InExchange(t) == conc.th[t].pc \in {"read", "retry_write", "retry_read"}

InitConc ==
    /\ CommIdle
    /\ pure = PureIdle
    /\ cfgw = CfgwIdle
    /\ conc = [pc |-> "run", isOpen |-> TRUE, mixed |-> FALSE,
               th |-> [t \in Threads |-> ThreadIdle]]

\* thread t does one ser.write or ser.read: the connection sees it, and it
\* falls inside the other thread's sequence when that thread is in one
Transport(t, opened, th2) ==
    conc' = [conc EXCEPT !.isOpen = opened,
                         !.mixed = conc.mixed \/ InExchange(OtherThread(t)),
                         !.th[t] = th2]

TInvoke(t) ==
    /\ conc.pc = "run"
    /\ conc.th[t].pc \in {"idle", "done"}
    /\ conc' = [conc EXCEPT !.th[t] = [ThreadIdle EXCEPT !.pc = "write"]]
    /\ UNCHANGED << commVars, pure, cfgw >>

TFirstWrite(t) ==
    /\ conc.pc = "run"
    /\ conc.th[t].pc = "write"
    /\ \E w \in WriteOutcomes(conc.isOpen) :
         IF w = "ok"
           THEN Transport(t, conc.isOpen, [conc.th[t] EXCEPT !.pc = "read"])
           ELSE Transport(t, CloseOnError(conc.isOpen),
                          [conc.th[t] EXCEPT !.pc = "done", !.error = -1])
    /\ UNCHANGED << commVars, pure, cfgw >>

TFirstRead(t) ==
    /\ conc.pc = "run"
    /\ conc.th[t].pc = "read"
    /\ \E r \in (IF conc.isOpen THEN {"full", "short", "raise"} ELSE {"raise"}) :
         CASE r = "raise" -> Transport(t, CloseOnError(conc.isOpen),
                                       [conc.th[t] EXCEPT !.pc = "done", !.error = -1])
           [] r = "short" -> Transport(t, conc.isOpen,
                                       [conc.th[t] EXCEPT !.pc = RetryEntry, !.count = 1,
                                                          !.error = 1])
           [] r = "full"  -> Transport(t, conc.isOpen, [conc.th[t] EXCEPT !.pc = "done"])
    /\ UNCHANGED << commVars, pure, cfgw >>

TRetryWrite(t) ==
    /\ conc.pc = "run"
    /\ conc.th[t].pc = "retry_write"
    /\ \E w \in WriteOutcomes(conc.isOpen) :
         IF w = "ok"
           THEN Transport(t, conc.isOpen, [conc.th[t] EXCEPT !.pc = "retry_read"])
           ELSE Transport(t, conc.isOpen, [conc.th[t] EXCEPT !.pc = "done", !.raised = TRUE])
    /\ UNCHANGED << commVars, pure, cfgw >>

TRetryRead(t) ==
    /\ conc.pc = "run"
    /\ conc.th[t].pc = "retry_read"
    /\ \E r \in (IF conc.isOpen THEN {"full", "short", "raise"} ELSE {"raise"}) :
         CASE r = "raise" -> Transport(t, conc.isOpen,
                                       [conc.th[t] EXCEPT !.pc = "done", !.raised = TRUE])
           [] r = "full"  -> Transport(t, conc.isOpen, [conc.th[t] EXCEPT !.pc = "done"])
           [] r = "short" ->
                IF GiveUp(conc.th[t].count + 1)
                  THEN Transport(t, AfterGiveUp(conc.isOpen),
                                 [conc.th[t] EXCEPT !.pc = "done", !.error = -1,
                                                    !.count = conc.th[t].count + 1])
                  ELSE Transport(t, conc.isOpen,
                                 [conc.th[t] EXCEPT !.pc = RetryEntry,
                                                    !.count = conc.th[t].count + 1])
    /\ UNCHANGED << commVars, pure, cfgw >>

NextConc ==
    \/ \E t \in Threads : TInvoke(t)
    \/ \E t \in Threads : TFirstWrite(t)
    \/ \E t \in Threads : TFirstRead(t)
    \/ \E t \in Threads : TRetryWrite(t)
    \/ \E t \in Threads : TRetryRead(t)

SpecConc == InitConc /\ [][NextConc]_vars

\* C11: when two callers run operations on the same connection, no write or
\* read of one exchange falls inside the write/read/retry sequence of the
\* other: the two exchanges are mutually exclusive.
C11_ExchangesMutuallyExclusive ==
    conc.pc = "run" =>
        /\ ~conc.mixed
        /\ ~(InExchange(1) /\ InExchange(2))

(***************************************************************************)
(* Properties of the single-caller machine, continued                      *)
(***************************************************************************)
\* C12: within one exchange the transport operations alternate write, read,
\* write, read, ... starting with a write: a write happens only when every
\* earlier write was followed by a read, a read only right after a write of
\* the frame that returned.
C12_WriteReadAlternate ==
    [][ \/ (writes' = 0 /\ reads' = 0)
        \/ (writes' = writes /\ reads' = reads)
        \/ (writes' = writes + 1 /\ reads' = reads /\ writes = reads)
        \/ /\ writes' = writes /\ reads' = reads + 1
           /\ writes = reads + 1
           /\ Len(wire) = writes /\ wire[writes] = sendtxt ]_vars

C12_Witness ==
    /\ pc = "wrapper" /\ writes = 3 /\ reads = 3
    /\ wire = << sendtxt, sendtxt, sendtxt >> /\ ret.error = 1

(***************************************************************************)
(* Frames with argument bytes: a frame is a sequence of tokens, a token a  *)
(* literal piece of the byte string or one byte chr(b)                     *)
(***************************************************************************)
Lit(s) == [lit |-> s, byte |-> -1]

Byte(b) == [lit |-> "", byte |-> b]

\* the frame of an operation without arguments
PlainFrame(o) == << Lit(Frame(o)) >>

(***************************************************************************)
(* SpecCfg: writeConfigData(ser, cfg, cfgaddress, value) against a device  *)
(* whose configuration block is the block cfg was read from.  The block    *)
(* has CfgLen bytes here (256 in the device).                              *)
(***************************************************************************)
CfgLen == 3

\* the byte values of the block, and the values written
CfgBytes == {0, 255}

CfgValues == {7, 255}

\* what one serialCOMM call with returnlength 1 can do, as its caller and the
\* device see it: how it ended, its error, and whether the device carried
\* the command out.  A full reply (error 0 or 1) comes from a device that
\* did; a frame that was never written reaches no device; after a Fatal end
\* or an exception with the frame written, the device may or may not have.
CommOutcomes ==
    { [how |-> "returned", error |-> e, applied |-> TRUE] : e \in {0, 1} }
      \cup { [how |-> "returned", error |-> -1, applied |-> x] : x \in BOOLEAN }
      \cup { [how |-> "raised", error |-> 0, applied |-> x] : x \in BOOLEAN }

\* gutils.remove_trailing(cfg, remove_value=255): cfg without its trailing
\* bytes equal to remove_value
RECURSIVE remove_trailing(_, _)
remove_trailing(c, remove_value) ==
    IF c # <<>> /\ c[Len(c)] = remove_value
      THEN remove_trailing(SubSeq(c, 1, Len(c) - 1), remove_value)
      ELSE c

\* mutant: the block is trimmed first and the byte set afterwards
TrimThenSet(c, cfgaddress, value) ==
    LET t == remove_trailing(c, 255)
    IN  IF cfgaddress < Len(t) THEN [t EXCEPT ![cfgaddress + 1] = value] ELSE t

\* cfg[cfgaddress] = value;  cfg = remove_trailing(cfg, remove_value=255)
SetThenTrim(c, cfgaddress, value) ==
    remove_trailing([c EXCEPT ![cfgaddress + 1] = value], 255)

ECFGFrame == << Lit("<ECFG>>") >>

\* mutant: the address byte is the 1-based position of the byte
WCFGFrameOneBased(i, c) == << Lit("<WCFG"), Byte(i + 1), Byte(c), Lit(">>") >>

\* b'<WCFG{}{}>>'.format(chr(i), chr(c))
WCFGFrame(i, c) == << Lit("<WCFG"), Byte(i), Byte(c), Lit(">>") >>

\* one serialCOMM call of writeConfigData, as logged: frame, returnlength, and
\* the connection it is made on
Call(frame, n, via) == [frame |-> frame, n |-> n, via |-> via]

\* the device carries out a frame: ECFG erases the block to 0xFF, WCFG sets
\* the byte at address A0 to D0, any other frame leaves the block alone
DevErase(d) == [i \in 1..Len(d) |-> 255]

DevWrite(d, A0, D0) == IF A0 + 1 \in 1..Len(d) THEN [d EXCEPT ![A0 + 1] = D0] ELSE d

DevApply(d, frame) ==
    IF frame[1].lit = "<ECFG>>" THEN DevErase(d)
    ELSE IF frame[1].lit = "<WCFG" THEN DevWrite(d, frame[2].byte, frame[3].byte)
    ELSE d

\* gglobs_ser is the connection gglobs.ser names: the ser of the caller or
\* another one
InitCfg ==
    /\ CommIdle
    /\ pure = PureIdle
    /\ conc = ConcIdle
    /\ \E c \in [1..CfgLen -> CfgBytes], a \in 0..(CfgLen - 1), v \in CfgValues,
          g \in {"ser", "other"} :
         cfgw = [pc |-> "ecfg", cfg0 |-> c, cfg |-> c, cfgaddress |-> a, value |-> v,
                 gglobs_ser |-> g,
                 trimmed |-> <<>>, i |-> 0, log |-> <<>>, dev |-> c,
                 allOk |-> TRUE, fatalWrite |-> FALSE, rec |-> [how |-> "none", error |-> 0, applied |-> FALSE]]

\* the effect of one serialCOMM call on the log, the device and rec;
\* fatalWrite notes an ECFG or WCFG call that returned Fatal
AfterCall(w, frame, via, o) ==
    [w EXCEPT !.log = Append(w.log, Call(frame, 1, via)),
              !.dev = IF o.applied THEN DevApply(w.dev, frame) ELSE w.dev,
              !.allOk = w.allOk /\ o.how = "returned" /\ o.error \in {0, 1},
              !.fatalWrite = w.fatalWrite \/ (/\ o.how = "returned" /\ o.error = -1
                                              /\ frame[1].lit \in {"<ECFG>>", "<WCFG"}),
              !.rec = o]

\* rec = serialCOMM(ser, '<ECFG>>', 1), then cfg[cfgaddress] = value and the trim
EraseConfig ==
    /\ cfgw.pc = "ecfg"
    /\ \E o \in CommOutcomes :
         LET w == AfterCall(cfgw, ECFGFrame, "ser", o)
             t == SetThenTrim(cfgw.cfg, cfgw.cfgaddress, cfgw.value)
         IN  cfgw' = IF o.how = "raised"
                       THEN [w EXCEPT !.pc = "raised"]
                       ELSE [w EXCEPT !.cfg = [cfgw.cfg EXCEPT ![cfgw.cfgaddress + 1] = cfgw.value],
                                      !.trimmed = t,
                                      !.i = 0,
                                      !.pc = IF Len(t) = 0 THEN "update" ELSE "wcfg"]
    /\ UNCHANGED << commVars, pure, conc >>

\* one turn of the loop: rec = serialCOMM(ser, '<WCFG' chr(i) chr(c) '>>', 1)
WriteByte ==
    /\ cfgw.pc = "wcfg"
    /\ \E o \in CommOutcomes :
         LET w == AfterCall(cfgw, WCFGFrame(cfgw.i, cfgw.trimmed[cfgw.i + 1]), "ser", o)
         IN  cfgw' = IF o.how = "raised"
                       THEN [w EXCEPT !.pc = "raised"]
                       ELSE [w EXCEPT !.i = cfgw.i + 1,
                                      !.pc = IF cfgw.i + 1 = Len(cfgw.trimmed)
                                               THEN "update" ELSE "wcfg"]
    /\ UNCHANGED << commVars, pure, conc >>

\* rec = updateConfig(gglobs.ser);  return rec
UpdateConfig ==
    /\ cfgw.pc = "update"
    /\ \E o \in CommOutcomes :
         LET w == AfterCall(cfgw, PlainFrame("updateConfig"), cfgw.gglobs_ser, o)
         IN  cfgw' = [w EXCEPT !.pc = IF o.how = "raised" THEN "raised" ELSE "done"]
    /\ UNCHANGED << commVars, pure, conc >>

NextCfg ==
    \/ EraseConfig
    \/ WriteByte
    \/ UpdateConfig

SpecCfg == InitCfg /\ [][NextCfg]_vars

(***************************************************************************)
(* Properties of writeConfigData                                           *)
(***************************************************************************)
\* the block the call is to leave in the device: cfg with value at cfgaddress
TargetBlock == [cfgw.cfg0 EXCEPT ![cfgw.cfgaddress + 1] = cfgw.value]

\* the number of bytes of block b up to its last byte other than 0xFF
TrimmedLen(b) ==
    IF \A k \in 1..Len(b) : b[k] = 255 THEN 0
    ELSE CHOOSE k \in 1..Len(b) : b[k] # 255 /\ \A j \in (k + 1)..Len(b) : b[j] = 255

\* the frames of the claim: ECFG, WCFG for offsets 0..n-1 in order, CFGUPDATE
ExpectedFrames ==
    << << Lit("<ECFG>>") >> >>
      \o [k \in 1..TrimmedLen(TargetBlock) |->
            << Lit("<WCFG"), Byte(k - 1), Byte(TargetBlock[k]), Lit(">>") >>]
      \o << << Lit("<CFGUPDATE>>") >> >>

\* C13: writeConfigData issues one ECFG first, then one WCFG per byte of the
\* trimmed block with offsets 0, 1, ..., n-1 in ascending order, each once,
\* then one CFGUPDATE last; the byte is set in the in-memory block before
\* the trailing 0xFF bytes are trimmed.  At every moment the commands issued
\* are a prefix of that sequence, and at the return they are all of it.
C13_CommandOrder ==
    cfgw.pc # "none" =>
        /\ Len(cfgw.log) <= Len(ExpectedFrames)
        /\ \A k \in 1..Len(cfgw.log) :
             cfgw.log[k].frame = ExpectedFrames[k] /\ cfgw.log[k].n = 1
        /\ cfgw.pc = "done" => Len(cfgw.log) = Len(ExpectedFrames)
        /\ cfgw.pc \in {"wcfg", "update", "done"} =>
             /\ cfgw.cfg = TargetBlock
             /\ cfgw.trimmed = SubSeq(TargetBlock, 1, TrimmedLen(TargetBlock))

C13_Witness ==
    /\ cfgw.pc = "done"
    /\ Len(cfgw.trimmed) >= 2 /\ Len(cfgw.trimmed) < CfgLen
    /\ Len(cfgw.log) = Len(cfgw.trimmed) + 2
    /\ cfgw.cfg0[cfgw.cfgaddress + 1] # cfgw.value

\* C14: when every command succeeds (and erase sets every device byte to
\* 0xFF), after writeConfigData(cfg, a, v) the device block equals cfg at
\* every offset other than a and v at offset a.
C14_DeviceHoldsTargetBlock ==
    (cfgw.pc = "done" /\ cfgw.allOk) => cfgw.dev = TargetBlock

C14_Witness ==
    /\ cfgw.pc = "done" /\ cfgw.allOk
    /\ Len(cfgw.trimmed) > 0 /\ Len(cfgw.trimmed) < CfgLen
    /\ cfgw.dev # cfgw.cfg0 /\ cfgw.dev = TargetBlock

(***************************************************************************)
(* SpecFun: the functions that compute a frame or decode a reply, each     *)
(* applied once to an input drawn from a bounded set.  pure.arg is the     *)
(* input, pure.out the result once pure.done holds.                        *)
(***************************************************************************)
NoOutput == [how |-> "pending"]

\* a function got as far as its serialCOMM call c
Called(c) == [how |-> "called", call |-> c, exc |-> ""]

\* a function raised x before any serialCOMM call
RaisedBeforeCall(x) == [how |-> "raised", call |-> Call(<<>>, 0, ""), exc |-> x]

\* struct.pack(">H", v): the two bytes of v, high byte first; struct.error
\* when v is not an unsigned 16-bit number
pack_H_fits(v) == v \in 0..65535

pack_H(v) == << v \div 256, v % 256 >>

\* struct.pack(">I", v): the four bytes of v, high byte first; struct.error
\* when v is negative (the addresses here stay below 2^31)
pack_I_fits(v) == v >= 0

pack_I(v) == << v \div 16777216, (v \div 65536) % 256, (v \div 256) % 256, v % 256 >>

Bytes(s) == [ k \in 1..Len(s) |-> Byte(s[k]) ]

\* mutant: the length is reduced by one for every device model
SPIRLengthAlwaysReduced(datalength, devicesIndex) == datalength - 1

\* the value packed into dl: datalength for gglobs.devicesIndex == 3,
\* datalength - 1 otherwise
SPIRLength(datalength, devicesIndex) ==
    IF devicesIndex = 3 THEN datalength ELSE datalength - 1

\* getSPIR(ser, address, datalength) up to its serialCOMM call:
\* ad = struct.pack(">I", address)[1:], dl = struct.pack(">H", ...),
\* serialCOMM(ser, '<SPIR' + ad + dl + '>>', datalength, ...)
getSPIR(address, datalength, devicesIndex) ==
    LET l == SPIRLength(datalength, devicesIndex)
    IN  IF ~pack_I_fits(address) \/ ~pack_H_fits(l)
          THEN RaisedBeforeCall("struct.error")
          ELSE Called(Call(<< Lit("<SPIR") >> \o Bytes(Tail(pack_I(address)))
                             \o Bytes(pack_H(l)) \o << Lit(">>") >>,
                           datalength, "ser"))

\* mutant: the year is sent as its last two digits
setDATETIMETwoDigitYear(tl) ==
    LET t == [tl EXCEPT ![1] = tl[1] % 100]
    IN  IF \E k \in 1..6 : t[k] \notin 0..255
          THEN RaisedBeforeCall("ValueError")
          ELSE Called(Call(<< Lit("<SETDATETIME") >> \o Bytes(SubSeq(t, 1, 6))
                             \o << Lit(">>") >>, 1, "ser"))

\* setDATETIME(ser) up to its serialCOMM call, for the local time tl:
\* tl[0] -= 2000, tlstr the six bytes chr(tl[i]); chr raises ValueError on a
\* number that is not a byte
setDATETIME(tl) ==
    LET t == [tl EXCEPT ![1] = tl[1] - 2000]
    IN  IF \E k \in 1..6 : t[k] \notin 0..255
          THEN RaisedBeforeCall("ValueError")
          ELSE Called(Call(<< Lit("<SETDATETIME") >> \o Bytes(SubSeq(t, 1, 6))
                             \o << Lit(">>") >>, 1, "ser"))

\* the functions that make one serialCOMM call with a fixed command; the two
\* calls of writeConfigData before its updateConfig are listed by command
CommandSites == Operations \cup {"writeConfigData.ECFG", "writeConfigData.WCFG", "setDATETIME"}

\* the serialCOMM call of a site, a the values its argument bytes come from
CommandCall(site, a) ==
    CASE site = "writeConfigData.ECFG" -> Called(Call(ECFGFrame, 1, "ser"))
      [] site = "writeConfigData.WCFG" -> Called(Call(WCFGFrame(a[1], a[2]), 1, "ser"))
      [] site = "setDATETIME"          -> setDATETIME(a)
      [] OTHER -> Called(Call(PlainFrame(site), ReplyLength(site), "ser"))

\* the local times setDATETIME is applied to: (year, month, day, hour,
\* minute, second) of time.localtime()
LocalTimes ==
    {1999, 2000, 2026, 2255, 2256} \X {1, 12} \X {1, 31} \X {0, 23} \X {0, 59} \X {0, 59, 61}

\* the (offset, value) pairs of the WCFG command
WcfgArgs == {0, 1, 255} \X {0, 7, 254}

CommandArgs(site) ==
    IF site = "setDATETIME" THEN LocalTimes
    ELSE IF site = "writeConfigData.WCFG" THEN WcfgArgs
    ELSE { <<>> }

CommandInputs ==
    { [f |-> "command", done |-> FALSE, out |-> NoOutput, arg |-> [site |-> x[1], a |-> x[2]]] :
        x \in UNION { {s} \X CommandArgs(s) : s \in CommandSites } }

ApplyCommand ==
    /\ pure.f = "command" /\ ~pure.done
    /\ pure' = [pure EXCEPT !.done = TRUE,
                            !.out = CommandCall(pure.arg.site, pure.arg.a)]
    /\ UNCHANGED << commVars, cfgw, conc >>

\* the addresses, lengths and device models getSPIR is applied to
SpirAddresses == {-1, 0, 258, 65536, 16777215, 16777216, 16909060, 2147483647}

SpirLengths == {0, 1, 2, 4096, 4128, 65535, 65536, 65537}

DevicesIndexes == 0..4

SpirInputs ==
    { [f |-> "getSPIR", done |-> FALSE, out |-> NoOutput,
       arg |-> [address |-> a, datalength |-> n, devicesIndex |-> d]] :
         a \in SpirAddresses, n \in SpirLengths, d \in DevicesIndexes }

ApplyGetSPIR ==
    /\ pure.f = "getSPIR" /\ ~pure.done
    /\ pure' = [pure EXCEPT !.done = TRUE,
                            !.out = getSPIR(pure.arg.address, pure.arg.datalength,
                                            pure.arg.devicesIndex)]
    /\ UNCHANGED << commVars, cfgw, conc >>

\* what serialCOMM returns with a full reply b: error 0 and no message, or
\* error 1 and the retry's message
FullReply(b, e) ==
    Returned(PyList(b), e,
             IF e = 0 THEN <<>> ELSE RetryOkMessage(MsgTooShort(0, Len(b)), 1))

\* second bytes of the two-byte replies (the first byte takes every value)
EdgeBytes == {0, 1, 28, 127, 128, 234, 254, 255}

CpmsInputs ==
    { [f |-> "getCPMS", done |-> FALSE, out |-> NoOutput,
       arg |-> [b |-> << b0, b1 >>, error |-> e, CPMflag |-> c]] :
         b0 \in 0..255, b1 \in EdgeBytes, e \in {0, 1}, c \in BOOLEAN }

ApplyGetCPMS ==
    /\ pure.f = "getCPMS" /\ ~pure.done
    /\ pure' = [pure EXCEPT !.done = TRUE,
                            !.out = getCPMS(FullReply(pure.arg.b, pure.arg.error),
                                            pure.arg.CPMflag)]
    /\ UNCHANGED << commVars, cfgw, conc >>

\* the seven-byte replies getDATETIME is applied to: values at and around
\* the ends of each field's range, years with and without a 29 February
DateTimeReplies ==
    {0, 17, 20, 100, 255} \X {0, 1, 2, 4, 12, 13, 255} \X {0, 1, 28, 29, 30, 31, 32}
      \X {0, 14, 23, 24} \X {0, 3, 59, 60} \X {0, 19, 59, 60} \X {0, 170}

DateTimeInputs ==
    { [f |-> "getDATETIME", done |-> FALSE, out |-> NoOutput,
       arg |-> [b |-> b, error |-> e]] : b \in DateTimeReplies, e \in {0, 1} }

ApplyGetDATETIME ==
    /\ pure.f = "getDATETIME" /\ ~pure.done
    /\ pure' = [pure EXCEPT !.done = TRUE,
                            !.out = getDATETIME(FullReply(pure.arg.b, pure.arg.error))]
    /\ UNCHANGED << commVars, cfgw, conc >>

\* the four-byte replies getTEMP is applied to: every fractional byte, with
\* some integer parts and sign bytes; the last byte is 0xAA
TempReplies == {0, 21, 255} \X (0..255) \X {0, 1, 255} \X {170}

TempInputs ==
    { [f |-> "getTEMP", done |-> FALSE, out |-> NoOutput,
       arg |-> [b |-> b, error |-> e]] : b \in TempReplies, e \in {0, 1} }

ApplyGetTEMP ==
    /\ pure.f = "getTEMP" /\ ~pure.done
    /\ pure' = [pure EXCEPT !.done = TRUE,
                            !.out = getTEMP(FullReply(pure.arg.b, pure.arg.error))]
    /\ UNCHANGED << commVars, cfgw, conc >>

(***************************************************************************)
(* The functions that read a configuration block cfg, the list of 256      *)
(* numbers getCFG returns                                                  *)
(***************************************************************************)
\* a function returned the bare value v
ReturnedValue(v) == [how |-> "returned", rec |-> v, exc |-> ""]

\* mutant: a code that is not in the table gets the nearest lower rate
brdictGuessing ==
    [ key \in 64..255 |->
        IF key >= 254 THEN 115200 ELSE IF key >= 252 THEN 57600
        ELSE IF key >= 250 THEN 38400 ELSE IF key >= 248 THEN 28800
        ELSE IF key >= 244 THEN 19200 ELSE IF key >= 240 THEN 14400
        ELSE IF key >= 232 THEN 9600 ELSE IF key >= 208 THEN 4800
        ELSE IF key >= 160 THEN 2400 ELSE 1200 ]

brdict ==
    (64 :> 1200) @@ (160 :> 2400) @@ (208 :> 4800) @@ (232 :> 9600) @@ (240 :> 14400)
      @@ (244 :> 19200) @@ (248 :> 28800) @@ (250 :> 38400) @@ (252 :> 57600)
      @@ (254 :> 115200)

\* getBAUDRATE(cfg): key = cfg[57]; rec = brdict[key], and the text of the
\* except branch when the lookup fails.  When cfg[57] itself fails (cfg is
\* None or too short) the except branch formats key, which was never bound.
getBAUDRATE(cfg) ==
    IF cfg.kind # "list" \/ Len(cfg.val) < 58
      THEN RaisedExc("UnboundLocalError")
      ELSE LET key == cfg.val[58]
           IN  IF key \in DOMAIN brdict
                 THEN ReturnedValue(PyInt(brdict[key]))
                 ELSE ReturnedValue(PyText("ERROR: Baudrate for cfg[57]={} is unknown",
                                           << key >>))

\* cfg[k] does not raise: cfg is a list with more than k elements
Indexable(cfg, k) == cfg.kind = "list" /\ k < Len(cfg.val)

\* gglobs.savedatatypes: the texts of the four modes 0..3, in the words of
\* the docstring of getSaveDataType
savedatatypes ==
    << "off (history is off)", "CPS every second", "CPM every minute",
       "CPM recorded once per hour" >>

\* if sdt <= len(sdttxt)
SaveDataTypeKnown(sdt, n) == sdt <= n

\* getSaveDataType(cfg): sdt = cfg[32] outside the try; inside it the table
\* entry, the "Unknown" text, or the text of the except branch when
\* sdttxt[sdt] raises IndexError
getSaveDataType(cfg) ==
    IF ~Indexable(cfg, 32) THEN RaisedExc(IF cfg.kind = "list" THEN "IndexError" ELSE "TypeError")
    ELSE LET sdt == cfg.val[33]
             txt == IF SaveDataTypeKnown(sdt, Len(savedatatypes))
                      THEN IF sdt < Len(savedatatypes)
                             THEN PyText(savedatatypes[sdt + 1], <<>>)
                             ELSE PyText("Error in getSaveDataType, undefined type: {}",
                                         << sdt >>)
                      ELSE PyText("Unknown SaveDataType: {}", << sdt >>)
         IN  ReturnedValue([kind |-> "tuple", val |-> << sdt, txt >>])

\* if cfg == None: cfg, error, errmessage = getCFG(gglobs.ser), fetched being
\* the rec that call returns
CfgOrFetched(cfg, fetched) == IF cfg.kind = "None" THEN fetched ELSE cfg

\* mutant: the alarm and speaker bytes are read like the power byte
StateLabelPowerStyle(c, unknown) ==
    IF c = 0 THEN PyText("ON", <<>>)
    ELSE IF c = 255 THEN PyText("OFF", <<>>)
    ELSE PyText(unknown, << c >>)

\* c == 0: "OFF", c == 1: "ON", else the Unknown text with c formatted in
StateLabel(c, unknown) ==
    IF c = 0 THEN PyText("OFF", <<>>)
    ELSE IF c = 1 THEN PyText("ON", <<>>)
    ELSE PyText(unknown, << c >>)

\* isPowerOn(cfg): c = cfg[gglobs.cfgOffsetPower], offset 0
isPowerOn(cfg, fetched) ==
    LET b == CfgOrFetched(cfg, fetched)
    IN  IF ~Indexable(b, 0) THEN RaisedExc(IF b.kind = "list" THEN "IndexError" ELSE "TypeError")
        ELSE LET c == b.val[1]
             IN  ReturnedValue(
                   IF c = 0 THEN PyText("ON", <<>>)
                   ELSE IF c = 255 THEN PyText("OFF", <<>>)
                   ELSE PyText("Unknown (Logging can be started, but if Power OFF will yield 0 only!)", <<>>))

\* isAlarmOn(cfg): c = cfg[gglobs.cfgOffsetAlarm], offset 1
isAlarmOn(cfg, fetched) ==
    LET b == CfgOrFetched(cfg, fetched)
    IN  IF ~Indexable(b, 1) THEN RaisedExc(IF b.kind = "list" THEN "IndexError" ELSE "TypeError")
        ELSE ReturnedValue(StateLabel(b.val[2], "Unknown Alarm Status: {} !"))

\* isSpeakerOn(cfg): c = cfg[gglobs.cfgOffsetSpeaker], offset 2
isSpeakerOn(cfg, fetched) ==
    LET b == CfgOrFetched(cfg, fetched)
    IN  IF ~Indexable(b, 2) THEN RaisedExc(IF b.kind = "list" THEN "IndexError" ELSE "TypeError")
        ELSE ReturnedValue(StateLabel(b.val[3], "Unknown Speaker Status: {} !"))

\* ftextCalibration(cfg): the three calibration points, point i (0..2) at
\* offsets 8 + 6i .. 13 + 6i: a big-endian 16-bit CPM and the four bytes of
\* a float read with fString (">f" for gglobs.devicesIndex == 2, "<f"
\* otherwise).  The float stays the bytes it is spelled with, and the
\* sensitivity cal_uSv[i] / cal_CPM[i] the pair it is computed from.  The
\* whole body is in a try whose except branch replaces the text: a
\* subscript that fails or a division by a zero CPM gives the ERROR text.
ftextCalibration(cfg, devicesIndex) ==
    IF ~Indexable(cfg, 25) THEN ReturnedValue(PyText("ERROR in getting Calibration", <<>>))
    ELSE LET c == cfg.val
             cal_CPM == [ i \in 1..3 |-> c[6 * i + 3] * 256 + c[6 * i + 4] ]
             cal_uSv == [ i \in 1..3 |->
                            [bytes |-> SubSeq(c, 6 * i + 5, 6 * i + 8),
                             fString |-> IF devicesIndex = 2 THEN ">f" ELSE "<f"] ]
         IN  IF \E i \in 1..3 : cal_CPM[i] = 0
               THEN ReturnedValue(PyText("ERROR in getting Calibration", <<>>))
               ELSE ReturnedValue(
                      [kind |-> "calibration",
                       val |-> [ i \in 1..3 |->
                                   [point |-> i, CPM |-> cal_CPM[i], uSv |-> cal_uSv[i],
                                    perCPM |-> << cal_uSv[i], cal_CPM[i] >>] ]])

\* the functions of one configuration byte, the offset of that byte, and
\* those that fetch the block themselves when called without one
ByteQueries == { "getBAUDRATE", "getSaveDataType", "isPowerOn", "isAlarmOn", "isSpeakerOn" }

QueryOffset(q) ==
    CASE q = "getBAUDRATE"     -> 57
      [] q = "getSaveDataType" -> 32
      [] q = "isPowerOn"       -> 0
      [] q = "isAlarmOn"       -> 1
      [] q = "isSpeakerOn"     -> 2

FetchingQueries == { "isPowerOn", "isAlarmOn", "isSpeakerOn" }

CfgQuery(a) ==
    CASE a.fn = "getBAUDRATE"      -> getBAUDRATE(a.cfg)
      [] a.fn = "getSaveDataType"  -> getSaveDataType(a.cfg)
      [] a.fn = "isPowerOn"        -> isPowerOn(a.cfg, a.fetched)
      [] a.fn = "isAlarmOn"        -> isAlarmOn(a.cfg, a.fetched)
      [] a.fn = "isSpeakerOn"      -> isSpeakerOn(a.cfg, a.fetched)
      [] a.fn = "ftextCalibration" -> ftextCalibration(a.cfg, a.devicesIndex)

\* a configuration block: fill everywhere but at the offsets of over
Block(fill, over) ==
    [ i \in 1..ReplyLength("getCFG") |-> IF (i - 1) \in DOMAIN over THEN over[i - 1] ELSE fill ]

\* the two bytes of a calibration CPM: 0, 100 and 256
CalCPMBytes == { << 0, 0 >>, << 0, 100 >>, << 1, 0 >> }

\* every value of the byte a function reads, in a block given by the caller;
\* blocks with every choice of the three calibration CPMs;
\* and the calls without a block, getCFG returning a block or None
CfgQueryInputs ==
    { [f |-> "cfgquery", done |-> FALSE, out |-> NoOutput,
       arg |-> [fn |-> q, cfg |-> PyList(Block(fill, QueryOffset(q) :> v)),
                fetched |-> PyNone]] :
         q \in ByteQueries, v \in 0..255, fill \in {0, 255} }
      \cup
    { [f |-> "cfgquery", done |-> FALSE, out |-> NoOutput,
       arg |-> [fn |-> q, cfg |-> PyNone, fetched |-> r]] :
         q \in FetchingQueries,
         r \in {PyNone} \cup { PyList(Block(255, 0 :> v)) : v \in {0, 1, 255} } }
      \cup
    { [f |-> "cfgquery", done |-> FALSE, out |-> NoOutput,
       arg |-> [fn |-> "ftextCalibration", fetched |-> PyNone, devicesIndex |-> d,
                cfg |-> PyList(Block(fill, (8 :> p[1][1]) @@ (9 :> p[1][2])
                                             @@ (14 :> p[2][1]) @@ (15 :> p[2][2])
                                             @@ (20 :> p[3][1]) @@ (21 :> p[3][2])))]] :
         p \in CalCPMBytes \X CalCPMBytes \X CalCPMBytes, fill \in {0, 255},
         d \in DevicesIndexes }

ApplyCfgQuery ==
    /\ pure.f = "cfgquery" /\ ~pure.done
    /\ pure' = [pure EXCEPT !.done = TRUE, !.out = CfgQuery(pure.arg)]
    /\ UNCHANGED << commVars, cfgw, conc >>

\* the seven-byte replies getSERIAL is applied to: every value of each byte
\* among bytes 0x00 or 0xA5, and the serial number of the code's comment
SerialInputs ==
    { [f |-> "getSERIAL", done |-> FALSE, out |-> NoOutput,
       arg |-> [b |-> b, error |-> e]] :
         b \in { [ k \in 1..7 |-> IF k = p THEN v ELSE fill ] :
                   p \in 1..7, v \in 0..255, fill \in {0, 165} }
               \cup { << 244, 136, 0, 126, 5, 18, 52 >> },
         e \in {0, 1} }

ApplyGetSERIAL ==
    /\ pure.f = "getSERIAL" /\ ~pure.done
    /\ pure' = [pure EXCEPT !.done = TRUE,
                            !.out = getSERIAL(FullReply(pure.arg.b, pure.arg.error))]
    /\ UNCHANGED << commVars, cfgw, conc >>

\* every one-byte reply
VoltInputs ==
    { [f |-> "getVOLT", done |-> FALSE, out |-> NoOutput,
       arg |-> [b |-> << v >>, error |-> e]] : v \in 0..255, e \in {0, 1} }

ApplyGetVOLT ==
    /\ pure.f = "getVOLT" /\ ~pure.done
    /\ pure' = [pure EXCEPT !.done = TRUE,
                            !.out = getVOLT(FullReply(pure.arg.b, pure.arg.error))]
    /\ UNCHANGED << commVars, cfgw, conc >>

\* what getCFG(gglobs.ser) can hand to serialOPEN: a full block with error 0
\* or 1, one of serialCOMM's Fatal returns, or an exception from the retry loop
ProbeOutcomes ==
    { FullReply(Block(fill, 0 :> v), e) : fill \in {255}, v \in {0, 255}, e \in {0, 1} }
      \cup { Returned(PyNone, -1, m) : m \in {MsgWriteFailed, MsgReadFailed, MsgGiveUp} }
      \cup { RaisedExc("SerialException") }

\* serialOPEN(usbport, baudrate, timeout): opened is how serial.Serial(...)
\* ended, probe what getCFG(gglobs.ser) did, before the connection gglobs.ser
\* named at the call.  The result is the pair returned (ser is "None" or the
\* new connection "port") with gglobs.ser as the call leaves it.
serialOPEN(opened, probe, before) ==
    IF opened = "ValueError" THEN [how |-> "raised", exc |-> "ValueError", gglobs_ser |-> before]
    ELSE IF opened = "SerialException"
      THEN [how |-> "returned", ser |-> "None", gglobs_ser |-> before,
            errmessage |-> Msg("serialOPEN: ERROR: {}\nserialOPEN: ERROR: settings tried: port='{}', baudrate={}, timeout={}", <<>>)]
    ELSE IF probe.how = "raised"
      THEN [how |-> "returned", ser |-> "None", gglobs_ser |-> "port",
            errmessage |-> Msg("unknown error", <<>>)
                             \o Msg("\nserialOPEN: ERROR: communication with device failed. Baudrate correct?\nserialOPEN: ERROR: settings tried: port='{}', baudrate={}, timeout={}", <<>>)]
    ELSE IF probe.error < 0
      THEN [how |-> "returned", ser |-> "None", gglobs_ser |-> "port",
            errmessage |-> probe.errmessage]
    ELSE IF isPowerOn(probe.rec, PyNone).how = "raised"
      THEN [how |-> "raised", exc |-> isPowerOn(probe.rec, PyNone).exc, gglobs_ser |-> "port"]
    ELSE [how |-> "returned", ser |-> "port", gglobs_ser |-> "port", errmessage |-> <<>>]

SerialOpenInputs ==
    { [f |-> "serialOPEN", done |-> FALSE, out |-> NoOutput,
       arg |-> [opened |-> o, probe |-> p, before |-> g]] :
         o \in {"ok", "SerialException", "ValueError"}, p \in ProbeOutcomes,
         g \in {"None", "old"} }

ApplySerialOPEN ==
    /\ pure.f = "serialOPEN" /\ ~pure.done
    /\ pure' = [pure EXCEPT !.done = TRUE,
                            !.out = serialOPEN(pure.arg.opened, pure.arg.probe,
                                               pure.arg.before)]
    /\ UNCHANGED << commVars, cfgw, conc >>

(***************************************************************************)
(* autoBAUDRATE(usbport, baudrates), one loop turn per step.  arg.probe    *)
(* gives for each baud rate what its probe does: "full" (ser.read(14)      *)
(* returns 14 bytes), "short" (fewer), or "raise" (serial.Serial,          *)
(* ser.write or ser.read raises).  probed lists the rates tried, in order. *)
(***************************************************************************)
\* mutant: the list is probed in the order given
BaudratesAsGiven(l) == l

\* baudrates.sort(reverse=True)
RECURSIVE SortDescending(_)
SortDescending(l) ==
    IF l = <<>> THEN <<>>
    ELSE LET k == CHOOSE k \in 1..Len(l) : \A j \in 1..Len(l) : l[k] >= l[j]
         IN  << l[k] >> \o SortDescending(SubSeq(l, 1, k - 1) \o SubSeq(l, k + 1, Len(l)))

\* the baud rates of the lists given: lists of distinct rates in any order
AutoBaudRates == {9600, 57600, 115200}

AutoBaudInputs ==
    { [f |-> "autoBAUDRATE", done |-> FALSE, out |-> NoOutput, pc |-> "sort",
       baudrates |-> l, i |-> 0, probed |-> <<>>,
       arg |-> [baudrates |-> l, probe |-> pr]] :
         l \in { q \in UNION { [1..n -> AutoBaudRates] : n \in 0..Cardinality(AutoBaudRates) } :
                   \A a, b \in 1..Len(q) : a # b => q[a] # q[b] },
         pr \in [AutoBaudRates -> {"full", "short", "raise"}] }

\* baudrates.sort(reverse=True);  foundit = False
AutoBaudSort ==
    /\ pure.f = "autoBAUDRATE" /\ ~pure.done /\ pure.pc = "sort"
    /\ pure' = [pure EXCEPT !.baudrates = SortDescending(pure.baudrates), !.pc = "loop"]
    /\ UNCHANGED << commVars, cfgw, conc >>

\* one turn of the for loop: open, write <GETVER>>, read 14, close; break
\* with foundit on 14 bytes (and return baudrate), return None on an exception
AutoBaudProbe ==
    /\ pure.f = "autoBAUDRATE" /\ ~pure.done /\ pure.pc = "loop"
    /\ pure.i < Len(pure.baudrates)
    /\ LET baudrate == pure.baudrates[pure.i + 1]
           p == [pure EXCEPT !.probed = Append(pure.probed, baudrate), !.i = pure.i + 1]
       IN  pure' = CASE pure.arg.probe[baudrate] = "raise" ->
                          [p EXCEPT !.done = TRUE, !.out = ReturnedValue(PyNone)]
                     [] pure.arg.probe[baudrate] = "full" ->
                          [p EXCEPT !.done = TRUE, !.out = ReturnedValue(PyInt(baudrate))]
                     [] OTHER -> p
    /\ UNCHANGED << commVars, cfgw, conc >>

\* the loop ran out of rates: return baudrate if foundit else 0, foundit False
AutoBaudReturn ==
    /\ pure.f = "autoBAUDRATE" /\ ~pure.done /\ pure.pc = "loop"
    /\ pure.i = Len(pure.baudrates)
    /\ pure' = [pure EXCEPT !.done = TRUE, !.out = ReturnedValue(PyInt(0))]
    /\ UNCHANGED << commVars, cfgw, conc >>

\* ftextDeviceInfo and fprintDeviceInfo after getCFG(gglobs.ser): the calls
\* in the order of the code.  A getter is a call over the connection that
\* returns (rec, error, errmessage); the others are applied to cfg.
DeviceInfoSteps ==
    << "getVER", "getSERIAL", "getBAUDRATE", "getDATETIME", "getVOLT", "getTEMP",
       "getGYRO", "isPowerOn", "isAlarmOn", "isSpeakerOn", "getSaveDataType",
       "cfg[gglobs.cfgOffsetMaxCPM]", "ftextCalibration" >>

\* the routine a.fn from step k on, applied the queries on cfg so far.
\* ftextDeviceInfo breaks at a getter with error < 0, but not at getDATETIME,
\* whose message it formats; fprintDeviceInfo prints the message and goes
\* on.  An exception of a query on cfg leaves the routine.
RECURSIVE DeviceInfoFrom(_, _, _)
DeviceInfoFrom(a, k, applied) ==
    LET s == DeviceInfoSteps[k]
        done == [how |-> "returned", exc |-> "", applied |-> applied,
                 reported |-> a.cfg.error < 0]
    IN  IF k > Len(DeviceInfoSteps) THEN done
        ELSE IF s \in DOMAIN a.getters
          THEN IF a.getters[s] < 0 /\ a.fn = "ftextDeviceInfo" /\ s # "getDATETIME"
                 THEN done
                 ELSE DeviceInfoFrom(a, k + 1, applied)
        ELSE LET r == IF s = "cfg[gglobs.cfgOffsetMaxCPM]"
                        THEN IF a.cfg.rec.kind = "list" THEN ReturnedValue(PyNone)
                             ELSE RaisedExc("TypeError")
                        ELSE CfgQuery([fn |-> s, cfg |-> a.cfg.rec, fetched |-> a.cfg.rec,
                                       devicesIndex |-> a.devicesIndex])
             IN  IF r.how = "raised"
                   THEN [how |-> "raised", exc |-> r.exc, applied |-> Append(applied, s),
                         reported |-> a.cfg.error < 0]
                   ELSE DeviceInfoFrom(a, k + 1, Append(applied, s))

\* getCFG ends Fatal, or returns a block with error 0 or 1; every getter
\* ends with error 0 or Fatal
DeviceInfoInputs ==
    { [f |-> "deviceinfo", done |-> FALSE, out |-> NoOutput,
       arg |-> [fn |-> fn, cfg |-> c, getters |-> g, devicesIndex |-> d]] :
         fn \in {"ftextDeviceInfo", "fprintDeviceInfo"},
         c \in {GiveUpReturn(PyNone)}
                 \cup { FullReply(Block(fill, 57 :> 232), e) : fill \in {0, 255}, e \in {0, 1} },
         g \in [{"getVER", "getSERIAL", "getDATETIME", "getVOLT", "getTEMP", "getGYRO"} -> {0, -1}],
         d \in {0, 2} }

\* cfg, error, errmessage = getCFG(gglobs.ser); if error < 0 ftextDeviceInfo
\* adds errmessage to the text and breaks, fprintDeviceInfo prints it and
\* goes on
ApplyDeviceInfo ==
    /\ pure.f = "deviceinfo" /\ ~pure.done
    /\ pure' = [pure EXCEPT
                  !.done = TRUE,
                  !.out = IF pure.arg.cfg.error < 0 /\ pure.arg.fn = "ftextDeviceInfo"
                            THEN [how |-> "returned", exc |-> "", applied |-> <<>>,
                                  reported |-> TRUE]
                            ELSE DeviceInfoFrom(pure.arg, 1, <<>>)]
    /\ UNCHANGED << commVars, cfgw, conc >>

\* ftextCFG() for the result r of getCFG(gglobs.ser).  With error < 0 the
\* text is the header and errmessage.  Otherwise `while cfg[-1] == 255:
\* cfg.pop()` drops the trailing 0xFF bytes and raises IndexError when the
\* list runs empty; the rows show the l_pop bytes left, six to a row; with
\* l_pop = 256 the else branch reads pText, a name ftextCFG never binds.
ftextCFG(r) ==
    IF r.error < 0
      THEN ReturnedValue(PyText("{}{}", << "header", r.errmessage >>))
      ELSE LET cfg == r.rec.val
               l_pop == IF \A k \in 1..Len(cfg) : cfg[k] = 255 THEN 0
                        ELSE CHOOSE k \in 1..Len(cfg) :
                               cfg[k] # 255 /\ \A j \in (k + 1)..Len(cfg) : cfg[j] = 255
           IN  IF l_pop = 0 THEN RaisedExc("IndexError")
               ELSE IF l_pop < 256
                 THEN ReturnedValue(
                        [kind |-> "cfgtext",
                         val |-> [rows |-> [ i \in 0..((l_pop - 1) \div 6) |->
                                               [ j \in 1..(IF 6 * i + 6 <= l_pop THEN 6
                                                           ELSE l_pop - 6 * i) |->
                                                   << 6 * i + j - 1, cfg[6 * i + j] >> ] ],
                                  tail |-> "Remaining values up to address 255 are all ff=255",
                                  ascii |-> SubSeq(cfg, 1, l_pop)]])
                 ELSE RaisedExc("NameError")

\* getCFG ends Fatal, or returns a block: all 0xFF but one byte, which takes
\* the value 0xFF too
FtextCFGInputs ==
    { [f |-> "ftextCFG", done |-> FALSE, out |-> NoOutput, arg |-> c] :
         c \in {GiveUpReturn(PyNone)}
                 \cup { FullReply(Block(255, k :> v), e) :
                          k \in {0, 5, 6, 57, 254, 255}, v \in {0, 65, 255}, e \in {0, 1} }
                 \cup { FullReply(Block(0, 255 :> v), e) : v \in {0, 255}, e \in {0, 1} } }

ApplyFtextCFG ==
    /\ pure.f = "ftextCFG" /\ ~pure.done
    /\ pure' = [pure EXCEPT !.done = TRUE, !.out = ftextCFG(pure.arg)]
    /\ UNCHANGED << commVars, cfgw, conc >>

\* the device is set with setDATETIME at the local time tl and later asked
\* with getDATETIME: its reply is the six argument bytes of the SETDATETIME
\* frame and a trailer byte.  The local times are dates of the calendar
\* with a time of day, and years on both sides of 2000..2255.
RoundTripInputs ==
    { [f |-> "roundtrip", done |-> FALSE, out |-> NoOutput,
       arg |-> [tl |-> tl, trailer |-> x, error |-> e]] :
         tl \in { t \in {1999, 2000, 2024, 2100, 2255, 2256} \X {1, 2, 12} \X {1, 28, 29, 31}
                          \X {0, 23} \X {0, 59} \X {0, 59} :
                    ValidDateTime(t[1], t[2], t[3], t[4], t[5], t[6]) },
         x \in {0, 170, 255}, e \in {0, 1} }

ApplyRoundTrip ==
    /\ pure.f = "roundtrip" /\ ~pure.done
    /\ LET c == setDATETIME(pure.arg.tl)
       IN  pure' = [pure EXCEPT
                      !.done = TRUE,
                      !.out = IF c.how = "raised" THEN RaisedExc(c.exc)
                              ELSE getDATETIME(FullReply(
                                     [ k \in 1..6 |-> c.call.frame[k + 1].byte ]
                                       \o << pure.arg.trailer >>, pure.arg.error))]
    /\ UNCHANGED << commVars, cfgw, conc >>

InitFun ==
    /\ CommIdle
    /\ cfgw = CfgwIdle
    /\ conc = ConcIdle
    /\ \/ pure \in SpirInputs
       \/ pure \in CommandInputs
       \/ pure \in CpmsInputs
       \/ pure \in DateTimeInputs
       \/ pure \in TempInputs
       \/ pure \in CfgQueryInputs
       \/ pure \in SerialInputs
       \/ pure \in VoltInputs
       \/ pure \in SerialOpenInputs
       \/ pure \in AutoBaudInputs
       \/ pure \in RoundTripInputs
       \/ pure \in DeviceInfoInputs
       \/ pure \in FtextCFGInputs

NextFun ==
    \/ ApplyGetSPIR
    \/ ApplyCommand
    \/ ApplyGetCPMS
    \/ ApplyGetDATETIME
    \/ ApplyGetTEMP
    \/ ApplyCfgQuery
    \/ ApplyGetSERIAL
    \/ ApplyGetVOLT
    \/ ApplySerialOPEN
    \/ AutoBaudSort
    \/ AutoBaudProbe
    \/ AutoBaudReturn
    \/ ApplyRoundTrip
    \/ ApplyDeviceInfo
    \/ ApplyFtextCFG

SpecFun == InitFun /\ [][NextFun]_vars

(***************************************************************************)
(* C15                                                                     *)
(***************************************************************************)
SpirApplied == pure.f = "getSPIR" /\ pure.done

\* the number a sequence of byte tokens spells, high byte first
RECURSIVE BigEndian(_)
BigEndian(t) ==
    IF t = <<>> THEN 0
    ELSE BigEndian(SubSeq(t, 1, Len(t) - 1)) * 256 + t[Len(t)].byte

IsByteToken(t) == t.lit = "" /\ t.byte \in 0..255

\* C15: whenever getSPIR reaches its serialCOMM call, the frame is '<SPIR',
\* three bytes spelling the low 24 bits of the address, two bytes spelling
\* the length field, '>>'; the length field is datalength for devicesIndex 3
\* and datalength - 1 for every other model; the reply length asked for is
\* datalength.
C15_SpirFrame ==
    (SpirApplied /\ pure.out.how = "called") =>
        LET fr == pure.out.call.frame
            a  == pure.arg
        IN  /\ Len(fr) = 7
            /\ fr[1] = Lit("<SPIR") /\ fr[7] = Lit(">>")
            /\ \A k \in 2..6 : IsByteToken(fr[k])
            /\ BigEndian(SubSeq(fr, 2, 4)) = a.address % 16777216
            /\ BigEndian(SubSeq(fr, 5, 6)) =
                 IF a.devicesIndex = 3 THEN a.datalength ELSE a.datalength - 1
            /\ pure.out.call.n = a.datalength

C15_Witness ==
    /\ SpirApplied /\ pure.out.how = "called"
    /\ pure.arg.devicesIndex = 3 /\ pure.arg.datalength = 4096
    /\ pure.arg.address = 16909060
    /\ pure.out.call.frame = << Lit("<SPIR"), Byte(2), Byte(3), Byte(4),
                                Byte(16), Byte(0), Lit(">>") >>

(***************************************************************************)
(* C16                                                                     *)
(***************************************************************************)
\* the command each site issues
CatalogName(site) ==
    CASE site = "getVER"               -> "GETVER"
      [] site = "getCPM"               -> "GETCPM"
      [] site = "getCPS"               -> "GETCPS"
      [] site = "turnHeartbeatOn"      -> "HEARTBEAT1"
      [] site = "turnHeartbeatOFF"     -> "HEARTBEAT0"
      [] site = "getVOLT"              -> "GETVOLT"
      [] site = "getCFG"               -> "GETCFG"
      [] site = "writeConfigData.ECFG" -> "ECFG"
      [] site = "writeConfigData.WCFG" -> "WCFG"
      [] site = "updateConfig"         -> "CFGUPDATE"
      [] site = "getSERIAL"            -> "GETSERIAL"
      [] site = "setDATETIME"          -> "SETDATETIME"
      [] site = "getDATETIME"          -> "GETDATETIME"
      [] site = "getTEMP"              -> "GETTEMP"
      [] site = "getGYRO"              -> "GETGYRO"
      [] site = "setPOWEROFF"          -> "POWEROFF"
      [] site = "setPOWERON"           -> "POWERON"
      [] site = "setREBOOT"            -> "REBOOT"
      [] site = "setFACTORYRESET"      -> "FACTORYRESET"

\* the catalog: command name -> reply length
CatalogLength(name) ==
    CASE name \in {"HEARTBEAT1", "HEARTBEAT0", "POWEROFF", "POWERON", "REBOOT"} -> 0
      [] name \in {"GETVOLT", "ECFG", "WCFG", "CFGUPDATE", "SETDATETIME",
                   "FACTORYRESET"} -> 1
      [] name \in {"GETCPM", "GETCPS"} -> 2
      [] name = "GETTEMP" -> 4
      [] name \in {"GETSERIAL", "GETDATETIME", "GETGYRO"} -> 7
      [] name = "GETVER" -> 14
      [] name = "GETCFG" -> 256

\* the argument bytes of a command: offset and value for WCFG, the two-digit
\* year and the five other fields of the time for SETDATETIME, none otherwise
CatalogArgs(name, a) ==
    IF name = "WCFG" THEN << a[1], a[2] >>
    ELSE IF name = "SETDATETIME" THEN << a[1] - 2000, a[2], a[3], a[4], a[5], a[6] >>
    ELSE <<>>

\* '<' + name + argument bytes + '>>' as tokens
CatalogFrame(name, bytes) ==
    IF bytes = <<>> THEN << Lit("<" \o name \o ">>") >>
    ELSE << Lit("<" \o name) >> \o [ k \in 1..Len(bytes) |-> Byte(bytes[k]) ]
           \o << Lit(">>") >>

\* C16: the serialCOMM call of every device operation sends '<' + command
\* name + argument bytes + '>>' and asks for the reply length the catalog
\* gives for that command.
C16_CatalogFramesAndLengths ==
    (pure.f = "command" /\ pure.done /\ pure.out.how = "called") =>
        LET name == CatalogName(pure.arg.site)
        IN  /\ pure.out.call.frame = CatalogFrame(name, CatalogArgs(name, pure.arg.a))
            /\ pure.out.call.n = CatalogLength(name)

C16_Witness ==
    /\ pure.f = "command" /\ pure.done /\ pure.out.how = "called"
    /\ pure.arg.site = "setDATETIME"
    /\ pure.arg.a = << 2026, 12, 31, 23, 59, 59 >>
    /\ pure.out.call.frame = << Lit("<SETDATETIME"), Byte(26), Byte(12), Byte(31),
                                Byte(23), Byte(59), Byte(59), Lit(">>") >>
    /\ pure.out.call.n = 1

(***************************************************************************)
(* C17, C18                                                                *)
(***************************************************************************)
CpmsApplied(flag) == pure.f = "getCPMS" /\ pure.done /\ pure.arg.CPMflag = flag

\* bit k of n, and n AND 0x3F as the sum of its six low bits
Bit(n, k) == (n \div (2 ^ k)) % 2

And3F(n) == Bit(n, 0) + 2 * Bit(n, 1) + 4 * Bit(n, 2) + 8 * Bit(n, 3)
              + 16 * Bit(n, 4) + 32 * Bit(n, 5)

\* the result is a number, returned with serialCOMM's error and message
ReturnsNumber(e) ==
    /\ pure.out.how = "returned"
    /\ pure.out.rec.kind = "int"
    /\ pure.out.error = e
    /\ pure.out.errmessage = FullReply(pure.arg.b, e).errmessage

\* C17: for every two-byte reply [b0, b1] getCPMS(CPMflag=False) returns
\* ((b0 AND 0x3F) * 256 + b1) * 60, a multiple of 60 in 0..982980; [0xFF,0xFF]
\* gives 982980 and [0x80,0x1C] gives 1680; the reply with any other top two
\* bits of b0 decodes to the same number.
C17_CpsDecode ==
    CpmsApplied(FALSE) =>
        LET b0 == pure.arg.b[1]
            b1 == pure.arg.b[2]
            v  == pure.out.rec.val
        IN  /\ ReturnsNumber(pure.arg.error)
            /\ v = (And3F(b0) * 256 + b1) * 60
            /\ v % 60 = 0 /\ v \in 0..982980
            /\ (b0 = 255 /\ b1 = 255) => v = 982980
            /\ (b0 = 128 /\ b1 = 28) => v = 1680
            /\ \A top \in 0..3 :
                 getCPMS(FullReply(<< And3F(b0) + 64 * top, b1 >>, pure.arg.error),
                         FALSE).rec.val = v

C17_Witness ==
    /\ CpmsApplied(FALSE)
    /\ pure.arg.b = << 128, 28 >>
    /\ pure.out.rec = PyInt(1680)

\* C18: for every two-byte reply [b0, b1] getCPMS(CPMflag=True) returns
\* b0 * 256 + b1, a number in 0..65535, with no bit of b0 masked; [0x0B,0xEA]
\* gives 3050.
C18_CpmDecode ==
    CpmsApplied(TRUE) =>
        LET b0 == pure.arg.b[1]
            b1 == pure.arg.b[2]
            v  == pure.out.rec.val
        IN  /\ ReturnsNumber(pure.arg.error)
            /\ v = b0 * 256 + b1
            /\ v \in 0..65535
            /\ v \div 256 = b0 /\ v % 256 = b1
            /\ (b0 = 11 /\ b1 = 234) => v = 3050

C18_Witness ==
    /\ CpmsApplied(TRUE)
    /\ pure.arg.b = << 255, 255 >>
    /\ pure.out.rec = PyInt(65535)

(***************************************************************************)
(* C19                                                                     *)
(***************************************************************************)
DateTimeApplied == pure.f = "getDATETIME" /\ pure.done

MonthDays == << 31, 28, 31, 30, 31, 30, 31, 31, 30, 31, 30, 31 >>

GregorianLeap(y) == y % 400 = 0 \/ (y % 4 = 0 /\ y % 100 # 0)

\* the six fields of a reply name a date of the calendar and a time of day
IsCalendarDateTime(b) ==
    /\ b[2] >= 1 /\ b[2] <= 12
    /\ b[3] >= 1
    /\ b[3] <= MonthDays[b[2]] + (IF b[2] = 2 /\ GregorianLeap(2000 + b[1]) THEN 1 ELSE 0)
    /\ b[4] < 24 /\ b[5] < 60 /\ b[6] < 60

\* C19: for every full seven-byte reply [YY,MM,DD,hh,mm,ss,trailer]
\* getDATETIME returns and does not raise; it returns the timestamp
\* (2000+YY)-MM-DD hh:mm:ss with serialCOMM's error (0 or 1) exactly when the
\* six fields are a valid calendar date and time, and otherwise error -1 with
\* a message; [17,12,31,14,3,19,0] gives 2017-12-31 14:03:19.
C19_DateTimeDecode ==
    DateTimeApplied =>
        LET b == pure.arg.b
        IN  /\ pure.out.how = "returned"
            /\ pure.out.error \in {0, 1} <=> IsCalendarDateTime(b)
            /\ IsCalendarDateTime(b) =>
                 /\ SameValue(pure.out.rec,
                              PyDateTime(2000 + b[1], b[2], b[3], b[4], b[5], b[6]))
                 /\ pure.out.error = pure.arg.error
            /\ ~IsCalendarDateTime(b) =>
                 /\ pure.out.error = -1
                 /\ pure.out.rec.kind # "datetime"
                 /\ pure.out.errmessage # <<>>
            /\ SubSeq(b, 1, 6) = << 17, 12, 31, 14, 3, 19 >> =>
                 SameValue(pure.out.rec, PyDateTime(2017, 12, 31, 14, 3, 19))

C19_Witness ==
    /\ DateTimeApplied
    /\ pure.arg.b = << 17, 12, 31, 14, 3, 19, 0 >>
    /\ pure.out.how = "returned" /\ pure.out.error = 0
    /\ SameValue(pure.out.rec, PyDateTime(2017, 12, 31, 14, 3, 19))

(***************************************************************************)
(* C20                                                                     *)
(***************************************************************************)
\* C20: for every full four-byte reply whose second byte is greater than 9
\* getTEMP returns a failure: error is -1 (neither Ok nor Warning) and the
\* message explains it.  The code returns the text with " ERROR: illegal
\* value ..." as rec and leaves error and errmessage as serialCOMM set them.
C20_BadFractionIsDecodeError ==
    (pure.f = "getTEMP" /\ pure.done /\ pure.arg.b[2] > 9) =>
        /\ pure.out.how = "returned"
        /\ pure.out.error = -1
        /\ pure.out.errmessage # <<>>

(***************************************************************************)
(* C21                                                                     *)
(***************************************************************************)
QueryApplied(q) ==
    /\ pure.f = "cfgquery" /\ pure.done /\ pure.arg.fn = q
    /\ CfgOrFetched(pure.arg.cfg, pure.arg.fetched).kind = "list"

\* the configuration byte at offset k of the block the function was given
CfgByte(k) == CfgOrFetched(pure.arg.cfg, pure.arg.fetched).val[k + 1]

\* the ten (code, baud) pairs
BaudTable ==
    { << 64, 1200 >>, << 160, 2400 >>, << 208, 4800 >>, << 232, 9600 >>,
      << 240, 14400 >>, << 244, 19200 >>, << 248, 28800 >>, << 250, 38400 >>,
      << 252, 57600 >>, << 254, 115200 >> }

\* C21: for every configuration block getBAUDRATE returns the baud value
\* the ten-entry table pairs with the code at offset 57, and for each of the
\* other 246 codes it returns an error text and no number.
C21_BaudRateLookup ==
    QueryApplied("getBAUDRATE") =>
        /\ pure.out.how = "returned"
        /\ \A p \in BaudTable :
             CfgByte(57) = p[1] => SameValue(pure.out.rec, PyInt(p[2]))
        /\ (\A p \in BaudTable : CfgByte(57) # p[1]) =>
             /\ pure.out.rec.kind = "text"
             /\ pure.out.rec.val.args = << CfgByte(57) >>
        /\ Cardinality({ c \in 0..255 : \A p \in BaudTable : c # p[1] }) = 246

C21_Witness ==
    /\ QueryApplied("getBAUDRATE")
    /\ CfgByte(57) = 254
    /\ SameValue(pure.out.rec, PyInt(115200))

(***************************************************************************)
(* C22                                                                     *)
(***************************************************************************)
\* C22: getSaveDataType returns the table entry for every mode byte 0..3 and
\* the "Unknown" text for every mode byte 4..255, the table length 4
\* included.  The code tests sdt <= len(sdttxt), so for the byte 4 it indexes
\* past the table and returns the text of its except branch.
C22_SaveDataTypeLabel ==
    QueryApplied("getSaveDataType") =>
        /\ pure.out.how = "returned"
        /\ pure.out.rec.val[1] = CfgByte(32)
        /\ CfgByte(32) \in 0..3 =>
             pure.out.rec.val[2] = PyText(savedatatypes[CfgByte(32) + 1], <<>>)
        /\ CfgByte(32) \in 4..255 =>
             pure.out.rec.val[2] = PyText("Unknown SaveDataType: {}", << CfgByte(32) >>)

(***************************************************************************)
(* C23                                                                     *)
(***************************************************************************)
LabelIs(txt) == pure.out.how = "returned" /\ pure.out.rec.val.fmt = txt

LabelIsUnknown ==
    /\ pure.out.how = "returned"
    /\ pure.out.rec.val.fmt \notin {"ON", "OFF"}

\* C23: over a configuration block isPowerOn returns "ON" exactly for the
\* power byte 0, "OFF" exactly for 255 and an Unknown text for the rest;
\* isAlarmOn and isSpeakerOn return "OFF" exactly for their byte 0, "ON"
\* exactly for 1 and an Unknown text for the rest; none raises for any byte.
C23_StateLabels ==
    /\ QueryApplied("isPowerOn") =>
         /\ LabelIs("ON") <=> CfgByte(0) = 0
         /\ LabelIs("OFF") <=> CfgByte(0) = 255
         /\ LabelIsUnknown <=> CfgByte(0) \in 1..254
    /\ QueryApplied("isAlarmOn") =>
         /\ LabelIs("OFF") <=> CfgByte(1) = 0
         /\ LabelIs("ON") <=> CfgByte(1) = 1
         /\ LabelIsUnknown <=> CfgByte(1) \in 2..255
    /\ QueryApplied("isSpeakerOn") =>
         /\ LabelIs("OFF") <=> CfgByte(2) = 0
         /\ LabelIs("ON") <=> CfgByte(2) = 1
         /\ LabelIsUnknown <=> CfgByte(2) \in 2..255

C23_Witness ==
    /\ QueryApplied("isSpeakerOn")
    /\ CfgByte(2) = 255 /\ CfgByte(0) = 0
    /\ pure.out = ReturnedValue(PyText("Unknown Speaker Status: {} !", << 255 >>))

(***************************************************************************)
(* C24                                                                     *)
(***************************************************************************)
\* the character of a hexadecimal digit 0..15
HexChar(n) ==
    CASE n = 0 -> "0" [] n = 1 -> "1" [] n = 2 -> "2" [] n = 3 -> "3"
      [] n = 4 -> "4" [] n = 5 -> "5" [] n = 6 -> "6" [] n = 7 -> "7"
      [] n = 8 -> "8" [] n = 9 -> "9" [] n = 10 -> "A" [] n = 11 -> "B"
      [] n = 12 -> "C" [] n = 13 -> "D" [] n = 14 -> "E" [] n = 15 -> "F"

\* C24: for every full seven-byte reply getSERIAL returns 14 characters over
\* 0-9A-F; counting characters and bytes from 0, character 2i is the high
\* nibble and character 2i+1 the low nibble of byte i;
\* [0xF4,0x88,0x00,0x7E,0x05,0x12,0x34] gives "F488007E051234".
C24_SerialDecode ==
    (pure.f = "getSERIAL" /\ pure.done) =>
        LET b  == pure.arg.b
            sn == pure.out.rec.val
        IN  /\ pure.out.how = "returned" /\ pure.out.rec.kind = "chars"
            /\ pure.out.error = pure.arg.error
            /\ Len(sn) = 14
            /\ \A i \in 0..6 :
                 LET hi == CHOOSE h \in 0..15 : \E l \in 0..15 : b[i + 1] = 16 * h + l
                     lo == b[i + 1] - 16 * hi
                 IN  sn[2 * i + 1] = HexChar(hi) /\ sn[2 * i + 2] = HexChar(lo)
            /\ b = << 244, 136, 0, 126, 5, 18, 52 >> =>
                 sn = << "F", "4", "8", "8", "0", "0", "7", "E", "0", "5", "1", "2", "3", "4" >>

C24_Witness ==
    /\ pure.f = "getSERIAL" /\ pure.done
    /\ pure.arg.b = << 244, 136, 0, 126, 5, 18, 52 >>
    /\ pure.out.rec = PyChars(<< "F", "4", "8", "8", "0", "0", "7", "E",
                                 "0", "5", "1", "2", "3", "4" >>)

(***************************************************************************)
(* C25                                                                     *)
(***************************************************************************)
\* the CPM of calibration point i (1..3) of the block given
CalCPM(i) == CfgByte(6 * i + 2) * 256 + CfgByte(6 * i + 3)

\* C25: for every configuration block in which one of the three calibration
\* CPM values is 0, ftextCalibration does not raise and still reports each
\* calibration point whose CPM is not 0.  The code returns the one text
\* "ERROR in getting Calibration" and no point.
C25_ZeroCPMKeepsOtherPoints ==
    (QueryApplied("ftextCalibration") /\ \E i \in 1..3 : CalCPM(i) = 0) =>
        /\ pure.out.how = "returned"
        /\ \A i \in 1..3 :
             CalCPM(i) # 0 =>
               /\ pure.out.rec.kind = "calibration"
               /\ \E k \in DOMAIN pure.out.rec.val :
                    /\ pure.out.rec.val[k].point = i
                    /\ pure.out.rec.val[k].CPM = CalCPM(i)

(***************************************************************************)
(* C26                                                                     *)
(***************************************************************************)
\* C26: for every full one-byte reply [b] getVOLT returns b tenths of a
\* volt: the value returned is a fraction num/den with num * 10 = b * den,
\* so ten times the value is the raw byte; [0x3E] gives 6.2 = 31/5.
C26_VoltDecode ==
    (pure.f = "getVOLT" /\ pure.done) =>
        LET b   == pure.arg.b[1]
            num == pure.out.rec.val[1]
            den == pure.out.rec.val[2]
        IN  /\ pure.out.how = "returned" /\ pure.out.rec.kind = "float"
            /\ pure.out.error = pure.arg.error
            /\ den > 0
            /\ num * 10 = b * den
            /\ b = 62 => num * 5 = 31 * den

C26_Witness ==
    /\ pure.f = "getVOLT" /\ pure.done
    /\ pure.arg.b = << 62 >>
    /\ pure.out.rec = PyFloat(62, 10)

(***************************************************************************)
(* C27                                                                     *)
(***************************************************************************)
\* C27: within one exchange every frame written, the retries' included, is
\* the frame of the first attempt, and every read, the retries' included,
\* asks for the expected length of the first attempt; the frame and the
\* expected length of the call do not change while the exchange runs.
C27_RetrySameFrameSameLength ==
    /\ \A k \in 1..Len(wire) : wire[k] = wire[1] /\ wire[k] = sendtxt
    /\ \A k \in 1..Len(asked) : asked[k] = asked[1] /\ asked[k] = returnlength
    /\ op \in Operations => sendtxt = Frame(op) /\ returnlength = ReplyLength(op)

C27_Witness ==
    /\ pc = "wrapper" /\ ret.how = "returned" /\ ret.error = 1
    /\ Len(wire) = 3 /\ Len(asked) = 3
    /\ asked = << 7, 7, 7 >>
    /\ sawPartial

(***************************************************************************)
(* SpecLive: Spec with every step of a running exchange taken.  Each       *)
(* ser.write and ser.read returns or raises (the port has a read timeout), *)
(* and the sleeps end, so a call of serialCOMM that has begun keeps        *)
(* running; the caller is free never to invoke another operation.          *)
(***************************************************************************)
SpecLive ==
    /\ Spec
    /\ WF_vars(FirstWrite) /\ WF_vars(FirstRead)
    /\ WF_vars(RetryWrite) /\ WF_vars(RetryRead)
    /\ WF_vars(Wrapper)

(***************************************************************************)
(* C28                                                                     *)
(***************************************************************************)
\* C28: every exchange that begins ends with a returned outcome, after at
\* most 5 writes and at most 5 reads.  An exchange does end within these
\* numbers, but when ser.write or ser.read raises inside the retry loop it
\* ends with the exception and no outcome is returned.
C28_ExchangeEndsReturned ==
    (pc = "write") ~>
        (pc = "wrapper" /\ ret.how = "returned" /\ writes <= 5 /\ reads <= 5)

(***************************************************************************)
(* C29                                                                     *)
(***************************************************************************)
\* C29: every device operation invoked with ser None writes nothing, reads
\* nothing and returns outcome Fatal (-1) with a message, the heartbeat
\* operations like all others.  turnHeartbeatOn and turnHeartbeatOFF return
\* error 1 (Warning) with "No serial connection, returning".
C29_NoConnectionFailsFast ==
    (ser = "None" /\ pc = "done") =>
        /\ writes = 0 /\ reads = 0
        /\ opret.how = "returned"
        /\ opret.error = -1
        /\ opret.errmessage # <<>>

(***************************************************************************)
(* C30                                                                     *)
(***************************************************************************)
\* C30: when the ECFG command or one of the WCFG commands of a call of
\* writeConfigData ends Fatal, the call returns a failure outcome.  The code
\* overwrites rec with every command and returns the rec of the final
\* CFGUPDATE alone.
C30_WriteFailureReported ==
    (cfgw.pc = "done" /\ cfgw.fatalWrite) => cfgw.rec.error = -1

(***************************************************************************)
(* C31                                                                     *)
(***************************************************************************)
\* C31: every command of one call writeConfigData(ser, ...), the final
\* CFGUPDATE included, goes over the connection ser of the caller, also when
\* gglobs.ser is another connection.  The code calls updateConfig(gglobs.ser).
C31_AllCommandsOverCallersConnection ==
    cfgw.pc # "none" => \A k \in 1..Len(cfgw.log) : cfgw.log[k].via = "ser"

(***************************************************************************)
(* C32                                                                     *)
(***************************************************************************)
\* C32: serialOPEN returns a connection only when the port opened and the
\* GETCFG probe ended with error 0 or 1; when it returns None it returns a
\* message that is not empty, and gglobs.ser does not name the port that
\* failed.  The code assigns gglobs.ser before the probe and leaves it so.
C32_NoConnectionRetainedOnFailure ==
    (pure.f = "serialOPEN" /\ pure.done /\ pure.out.how = "returned") =>
        /\ pure.out.ser # "None" =>
             /\ pure.arg.opened = "ok"
             /\ pure.arg.probe.how = "returned" /\ pure.arg.probe.error \in {0, 1}
        /\ pure.out.ser = "None" =>
             /\ pure.out.errmessage # <<>>
             /\ pure.out.gglobs_ser # "port"

(***************************************************************************)
(* C33                                                                     *)
(***************************************************************************)
\* the rates of the list given, and those whose probe ends the search
GivenRates == { pure.arg.baudrates[k] : k \in 1..Len(pure.arg.baudrates) }

DecisiveRates == { r \in GivenRates : pure.arg.probe[r] \in {"full", "raise"} }

C34_DateTimeRoundTrip ==
    (pure.f = "roundtrip" /\ pure.done /\ pure.arg.tl[1] \in 2000..2255) =>
        LET tl == pure.arg.tl
        IN  /\ pure.out.how = "returned"
            /\ pure.out.error = pure.arg.error
            /\ SameValue(pure.out.rec, PyDateTime(tl[1], tl[2], tl[3], tl[4], tl[5], tl[6]))

C34_Witness ==
    /\ pure.f = "roundtrip" /\ pure.done
    /\ pure.arg.tl = << 2100, 2, 28, 23, 59, 59 >> /\ pure.arg.trailer = 170
    /\ pure.out.how = "returned"
    /\ SameValue(pure.out.rec, PyDateTime(2100, 2, 28, 23, 59, 59))

(***************************************************************************)
(* C35                                                                     *)
(***************************************************************************)
\* C35: when GETCFG ends Fatal (the block is None), isPowerOn, isAlarmOn
\* and isSpeakerOn called without a block do not raise, and ftextDeviceInfo
\* and fprintDeviceInfo report the message, apply no query to the absent
\* block and do not raise.
C35_NoQueryOnMissingConfiguration ==
    /\ (/\ pure.f = "cfgquery" /\ pure.done
        /\ pure.arg.fn \in FetchingQueries
        /\ pure.arg.cfg = PyNone /\ pure.arg.fetched = PyNone)
         => pure.out.how = "returned"
    /\ (pure.f = "deviceinfo" /\ pure.done /\ pure.arg.cfg.error < 0)
         => /\ pure.out.how = "returned"
            /\ pure.out.reported
            /\ pure.out.applied = <<>>

(***************************************************************************)
(* getExtraByte(ser): the loop of ser.read(1) calls.  The device is what   *)
(* the next reads find: a finite sequence of outcomes, each one byte or    *)
(* nothing (the timeout passed with no byte), and after them either        *)
(* silence for ever or a heartbeat, a byte in every timeout for ever.      *)
(***************************************************************************)
MaxArrivals == 3

\* the model keeps this many bytes of rec; under a heartbeat rec grows
\* without end and the loop goes on with the bytes kept so far
MaxExtraKept == MaxArrivals + 1

\* mutant: rec = x where the code has rec += x
ExtraByteKeepsLast(r, x) == x

\* rec += x
ExtraByteAppend(r, x) == r \o x

ExtraByteInputs ==
    { [f |-> "getExtraByte", done |-> FALSE, out |-> NoOutput, pc |-> "loop",
       rec |-> <<>>, n |-> 0, asked |-> <<>>,
       arg |-> [arrivals |-> a, tail |-> t]] :
         a \in UNION { [1..n -> { <<>>, << 65 >>, << 200 >> }] : n \in 0..MaxArrivals },
         t \in {"silent", "heartbeat"} }

\* one turn of the while loop: x = ser.read(1); a byte is appended to rec,
\* an empty x breaks the loop
ExtraByteRead ==
    /\ pure.f = "getExtraByte" /\ ~pure.done /\ pure.pc = "loop"
    /\ LET x == IF pure.n < Len(pure.arg.arrivals) THEN pure.arg.arrivals[pure.n + 1]
                ELSE IF pure.arg.tail = "heartbeat" THEN << 28 >>
                ELSE <<>>
           p == [pure EXCEPT !.n = IF pure.n < Len(pure.arg.arrivals) THEN pure.n + 1 ELSE pure.n,
                             !.asked = IF Len(pure.asked) < MaxExtraKept
                                         THEN Append(pure.asked, 1) ELSE pure.asked]
       IN  pure' = IF Len(x) > 0
                     THEN [p EXCEPT !.rec = IF Len(pure.rec) < MaxExtraKept
                                              THEN ExtraByteAppend(pure.rec, x) ELSE pure.rec]
                     ELSE [p EXCEPT !.pc = "after"]
    /\ UNCHANGED << commVars, cfgw, conc >>

\* after the loop: the debug lines, and return rec
ExtraByteReturn ==
    /\ pure.f = "getExtraByte" /\ ~pure.done /\ pure.pc = "after"
    /\ pure' = [pure EXCEPT !.done = TRUE, !.out = ReturnedValue(PyStr(pure.rec))]
    /\ UNCHANGED << commVars, cfgw, conc >>

InitExtra ==
    /\ CommIdle /\ cfgw = CfgwIdle /\ conc = ConcIdle
    /\ pure \in ExtraByteInputs

NextExtra ==
    \/ ExtraByteRead
    \/ ExtraByteReturn

\* the thread in getExtraByte keeps running: each ser.read(1) returns within
\* the read timeout of the port
SpecExtra ==
    /\ InitExtra /\ [][NextExtra]_vars
    /\ WF_vars(ExtraByteRead) /\ WF_vars(ExtraByteReturn)

(***************************************************************************)
(* C36                                                                     *)
(***************************************************************************)
\* some read of the device finds nothing: the device pauses for a timeout
\* or falls silent
SomeReadTimesOut ==
    \/ \E k \in 1..Len(pure.arg.arrivals) : pure.arg.arrivals[k] = <<>>
    \/ pure.arg.tail = "silent"

\* the bytes that arrive before the first read that finds nothing
RECURSIVE BeforeFirstEmpty(_)
BeforeFirstEmpty(a) ==
    IF a = <<>> \/ Head(a) = <<>> THEN <<>>
    ELSE Head(a) \o BeforeFirstEmpty(Tail(a))

\* C36: getExtraByte asks for one byte in every read and returns exactly the
\* bytes read before the first empty read, in the order they arrived; it
\* returns when some read times out, and it never returns while the device
\* puts a byte into every read.
C36_ExtraByte ==
    /\ [](\A k \in 1..Len(pure.asked) : pure.asked[k] = 1)
    /\ [](pure.done => /\ pure.out.how = "returned"
                       /\ SameValue(pure.out.rec, PyStr(BeforeFirstEmpty(pure.arg.arrivals))))
    /\ (SomeReadTimesOut ~> pure.done)
    /\ [](~SomeReadTimesOut => ~pure.done)

C36_Witness ==
    /\ pure.done
    /\ pure.arg.arrivals = << << 200 >>, << 65 >>, <<>> >>
    /\ pure.arg.tail = "heartbeat"
    /\ pure.out.rec = PyStr(<< 200, 65 >>)
    /\ pure.asked = << 1, 1, 1 >>

(***************************************************************************)
(* C37                                                                     *)
(***************************************************************************)
\* C37: for a 256-byte block of 0xFF bytes only, and for a block whose last
\* byte is not 0xFF, ftextCFG returns the formatted text and does not raise.
C37_EveryBlockIsFormatted ==
    (/\ pure.f = "ftextCFG" /\ pure.done /\ pure.arg.error >= 0
     /\ \/ \A k \in 1..Len(pure.arg.rec.val) : pure.arg.rec.val[k] = 255
        \/ pure.arg.rec.val[Len(pure.arg.rec.val)] # 255)
      => pure.out.how = "returned"

====
